---- MODULE Spec2Model ----
(***************************************************************************)
(* Model of the parking-discount request engine of src/lib/parking-api.ts: *)
(* the template/directive text functions, computed character by character *)
(* on sequences of one-character strings, and sendParkingDiscount as a     *)
(* state machine whose steps are the code between two awaits.              *)
(***************************************************************************)
EXTENDS Integers, Sequences, FiniteSets, TLC

VARIABLES
  pc,            \* where the sendParkingDiscount invocation stands
  call,          \* its arguments
  discountTypes, \* the rows of the discount type table
  loadedType,    \* the row the invocation loaded (its const discountType)
  requests,      \* the fetch calls made so far
  response,      \* the response the fetch resolved with
  returnValue,   \* the value the invocation returned
  errorLog,      \* the errors the catch clause logged
  fn,            \* the text function a function specification applies ("none" in Spec)
  args,          \* its arguments
  ret,           \* its result once applied
  fnpc           \* "ready" before the application, "done" after

mainVars == <<pc, call, discountTypes, loadedType, requests, response, returnValue, errorLog>>

fnVars == <<fn, args, ret, fnpc>>

vars == <<pc, call, discountTypes, loadedType, requests, response, returnValue, errorLog,
          fn, args, ret, fnpc>>

(***************************************************************************)
(* Bounds of the model.                                                    *)
(***************************************************************************)
MaxValueLen == 6
MaxDirectiveLen == 4

(***************************************************************************)
(* Text: a string is a sequence of one-character strings.                  *)
(***************************************************************************)
UpperLetters == <<"A","B","C","D","E","F","G","H","I","J","K","L","M",
                  "N","O","P","Q","R","S","T","U","V","W","X","Y","Z">>
LowerLetters == <<"a","b","c","d","e","f","g","h","i","j","k","l","m",
                  "n","o","p","q","r","s","t","u","v","w","x","y","z">>
Digits == <<"0","1","2","3","4","5","6","7","8","9">>

Range(f) == {f[i] : i \in DOMAIN f}

\* \s of the regular expressions, String.prototype.trim
WhiteSpace == {" ", "\n", "\r", "\t"}

\* [a-zA-Z0-9_.-] of TEMPLATE_TOKEN_RE
NameChars == Range(UpperLetters) \cup Range(LowerLetters) \cup Range(Digits) \cup {"_", ".", "-"}

\* String.prototype.toLowerCase on one character
LowerChar(c) ==
  IF c \in Range(UpperLetters)
  THEN LowerLetters[CHOOSE i \in DOMAIN UpperLetters : UpperLetters[i] = c]
  ELSE c

toLowerCase(s) == [i \in DOMAIN s |-> LowerChar(s[i])]

RECURSIVE SpanEnd(_, _, _)
\* the first position >= i of s whose character is outside cs (Len(s)+1 if none):
\* where a greedy character-class repetition started at i stops
SpanEnd(s, i, cs) ==
  IF i > Len(s) \/ s[i] \notin cs THEN i ELSE SpanEnd(s, i + 1, cs)

\* the literal w stands in s at position i
LitAt(s, i, w) ==
  /\ i >= 1
  /\ i + Len(w) - 1 <= Len(s)
  /\ \A k \in 1..Len(w) : s[i + k - 1] = w[k]

\* s.includes(w)
Includes(s, w) == \E i \in 1..(Len(s) + 1) : LitAt(s, i, w)

\* s.indexOf(w) from position i on, 1-based; 0 when w does not occur
IndexFrom(s, i, w) ==
  IF \E j \in i..(Len(s) + 1) : LitAt(s, j, w)
  THEN CHOOSE j \in i..(Len(s) + 1) :
         LitAt(s, j, w) /\ \A k \in i..(j - 1) : ~LitAt(s, k, w)
  ELSE 0

\* s.slice(i-1, j) on 1-based inclusive positions, empty when j < i
Slice(s, i, j) == IF j < i THEN <<>> ELSE SubSeq(s, i, j)

RECURSIVE TrimLeft(_)
TrimLeft(s) == IF s # <<>> /\ Head(s) \in WhiteSpace THEN TrimLeft(Tail(s)) ELSE s

RECURSIVE TrimRight(_)
TrimRight(s) ==
  IF s # <<>> /\ s[Len(s)] \in WhiteSpace THEN TrimRight(SubSeq(s, 1, Len(s) - 1)) ELSE s

\* String.prototype.trim
Trim(s) == TrimRight(TrimLeft(s))

(***************************************************************************)
(* JavaScript values: tagged records, one field set per type, so that two  *)
(* values of different types compare unequal.  An object is the sequence   *)
(* of its own properties in insertion order, its keys pairwise distinct.   *)
(***************************************************************************)
Undef == [t |-> "undef"]
Null == [t |-> "null"]
Str(s) == [t |-> "str", s |-> s]
Num(n) == [t |-> "num", n |-> n]
Bool(b) == [t |-> "bool", b |-> b]
Obj(o) == [t |-> "obj", o |-> o]
Prop(k, v) == [k |-> k, v |-> v]

IsStr(x) == x.t = "str"
IsObj(x) == x.t = "obj"

\* Object.keys
Keys(x) == [i \in DOMAIN x.o |-> x.o[i].k]

HasKey(x, k) == \E i \in DOMAIN x.o : x.o[i].k = k

\* x[k] on an object: the own property, else undefined
Get(x, k) ==
  IF HasKey(x, k) THEN x.o[CHOOSE i \in DOMAIN x.o : x.o[i].k = k].v ELSE Undef

\* x[k] = v on an object: in place when k is an own property, else appended
Put(x, k, v) ==
  IF HasKey(x, k)
  THEN Obj([i \in DOMAIN x.o |-> IF x.o[i].k = k THEN Prop(k, v) ELSE x.o[i]])
  ELSE Obj(Append(x.o, Prop(k, v)))

\* delete x[k]
Delete(x, k) == Obj(SelectSeq(x.o, LAMBDA p : p.k # k))

RECURSIVE PutAll(_, _)
\* { ...x, ...y }: the properties of y assigned onto a copy of x, in y's order
PutAll(x, ps) ==
  IF ps = <<>> THEN x ELSE PutAll(Put(x, Head(ps).k, Head(ps).v), Tail(ps))

Spread(x, y) == PutAll(x, y.o)

\* the decimal text of a small natural number
NatText(n) == IF n < 10 THEN <<Digits[n + 1]>> ELSE <<Digits[(n \div 10) + 1], Digits[(n % 10) + 1]>>

\* the value of a decimal digit
DigitValue(c) == (CHOOSE i \in DOMAIN Digits : Digits[i] = c) - 1

ObjectObjectText == <<"[","o","b","j","e","c","t"," ","O","b","j","e","c","t","]">>

\* String(x)
String(x) ==
  CASE x.t = "str" -> x.s
    [] x.t = "num" -> x.n
    [] x.t = "bool" -> IF x.b THEN <<"t","r","u","e">> ELSE <<"f","a","l","s","e">>
    [] x.t = "null" -> <<"n","u","l","l">>
    [] x.t = "undef" -> <<"u","n","d","e","f","i","n","e","d">>
    [] x.t = "obj" -> ObjectObjectText

\* Boolean(x)
Truthy(x) ==
  CASE x.t = "str" -> x.s # <<>>
    [] x.t = "num" -> x.n # <<"0">>
    [] x.t = "bool" -> x.b
    [] x.t = "null" -> FALSE
    [] x.t = "undef" -> FALSE
    [] x.t = "obj" -> TRUE

\* a || b
OrElse(a, b) == IF Truthy(a) THEN a ELSE b

RECURSIVE SplitOn(_, _)
\* s.split(c) for a one-character separator
SplitOn(s, c) ==
  LET i == IndexFrom(s, 1, <<c>>) IN
  IF i = 0 THEN <<s>> ELSE <<Slice(s, 1, i - 1)>> \o SplitOn(Slice(s, i + 1, Len(s)), c)

RECURSIVE bracketsToDots(_, _)
\* path.replace(/\[(\d+)\]/g, '.$1')
bracketsToDots(s, i) ==
  IF i > Len(s) THEN <<>>
  ELSE LET e == SpanEnd(s, i + 1, Range(Digits)) IN
       IF s[i] = "[" /\ e > i + 1 /\ e <= Len(s) /\ s[e] = "]"
       THEN <<".">> \o Slice(s, i + 1, e - 1) \o bracketsToDots(s, e + 1)
       ELSE <<s[i]>> \o bracketsToDots(s, i + 1)

LengthWord == <<"l","e","n","g","t","h">>

\* current[part]: an own property of an object; a character or the length of a
\* string; undefined on a number or a boolean
Member(cur, part) ==
  CASE cur.t = "obj" -> Get(cur, part)
    [] cur.t = "str" ->
         IF part = LengthWord THEN Num(NatText(Len(cur.s)))
         ELSE IF Len(part) = 1 /\ part[1] \in Range(Digits) /\ DigitValue(part[1]) < Len(cur.s)
              THEN Str(<<cur.s[DigitValue(part[1]) + 1]>>)
              ELSE Undef
    [] OTHER -> Undef

RECURSIVE walkPath(_, _)
walkPath(cur, parts) ==
  IF parts = <<>> THEN cur
  ELSE IF cur.t \in {"undef", "null"} THEN Undef
  ELSE walkPath(Member(cur, Head(parts)), Tail(parts))

\* getValueByPath(obj, path), path a string or undefined
getValueByPath(obj, path) ==
  IF path.t # "str" \/ path.s = <<>> THEN Undef
  ELSE walkPath(obj, SelectSeq(SplitOn(bracketsToDots(path.s, 1), "."), LAMBDA p : p # <<>>))

(***************************************************************************)
(* applyTemplate                                                           *)
(***************************************************************************)
RECURSIVE normalizeLegacyTokens(_, _)
\* value.replace(/#\{([a-zA-Z0-9_.-]+)\}/g, '{{$1}}')
normalizeLegacyTokens(s, i) ==
  IF i > Len(s) THEN <<>>
  ELSE LET e == SpanEnd(s, i + 2, NameChars) IN
       IF LitAt(s, i, <<"#", "{">>) /\ e > i + 2 /\ e <= Len(s) /\ s[e] = "}"
       THEN <<"{", "{">> \o Slice(s, i + 2, e - 1) \o <<"}", "}">> \o normalizeLegacyTokens(s, e + 1)
       ELSE <<s[i]>> \o normalizeLegacyTokens(s, i + 1)

\* TEMPLATE_TOKEN_RE matched at position i of s: whether it matches, the captured
\* key and the first position after the match
tokenAt(s, i) ==
  LET k0 == SpanEnd(s, i + 2, WhiteSpace)
      k1 == SpanEnd(s, k0, NameChars)
      k2 == SpanEnd(s, k1, WhiteSpace)
  IN IF LitAt(s, i, <<"{", "{">>) /\ k1 > k0 /\ LitAt(s, k2, <<"}", "}">>)
     THEN [ok |-> TRUE, key |-> Slice(s, k0, k1 - 1), next |-> k2 + 2]
     ELSE [ok |-> FALSE, key |-> <<>>, next |-> i + 1]

\* the replacement callback of applyTemplate
tokenValue(key, context) ==
  LET rawValue == IF Includes(key, <<".">>) THEN getValueByPath(context, Str(key))
                  ELSE Get(context, key)
  IN IF rawValue.t \in {"undef", "null"} THEN <<>> ELSE String(rawValue)

RECURSIVE replaceTokensOnce(_, _, _)
\* a replace that stops after the first match (a regular expression without /g)
replaceTokensOnce(s, i, context) ==
  IF i > Len(s) THEN <<>>
  ELSE LET m == tokenAt(s, i) IN
       IF m.ok THEN tokenValue(m.key, context) \o Slice(s, m.next, Len(s))
       ELSE <<s[i]>> \o replaceTokensOnce(s, i + 1, context)

RECURSIVE replaceTokens(_, _, _)
\* normalized.replace(TEMPLATE_TOKEN_RE, callback): every match, left to right;
\* the text a callback returns is not scanned again
replaceTokens(s, i, context) ==
  IF i > Len(s) THEN <<>>
  ELSE LET m == tokenAt(s, i) IN
       IF m.ok THEN tokenValue(m.key, context) \o replaceTokens(s, m.next, context)
       ELSE <<s[i]>> \o replaceTokens(s, i + 1, context)

applyTemplate(value, context) ==
  replaceTokens(normalizeLegacyTokens(value, 1), 1, context)

(***************************************************************************)
(* JSON.parse, for the JSON texts of the model: strings without escapes,   *)
(* unsigned integers, true, false, null and objects, with JSON white space *)
(* between the tokens.                                                     *)
(***************************************************************************)
\* s.charAt(i - 1): the empty string outside the text
At(s, i) == IF i \in 1..Len(s) THEN s[i] ELSE ""

Quote == "\""

JsonFail == [ok |-> FALSE, v |-> Undef, next |-> 0]
JsonOk(v, next) == [ok |-> TRUE, v |-> v, next |-> next]

SkipWs(s, i) == SpanEnd(s, i, WhiteSpace)

\* a string literal opening at position i
jsonString(s, i) ==
  LET e == IndexFrom(s, i + 1, <<Quote>>) IN
  IF e = 0 \/ \E k \in (i + 1)..(e - 1) : s[k] \in {"\n", "\r", "\t"}
  THEN JsonFail
  ELSE JsonOk(Str(Slice(s, i + 1, e - 1)), e + 1)

\* a number opening at position i
jsonNumber(s, i) ==
  LET e == SpanEnd(s, i, Range(Digits)) IN
  IF e = i \/ (s[i] = "0" /\ e > i + 1) THEN JsonFail
  ELSE JsonOk(Num(Slice(s, i, e - 1)), e)

RECURSIVE jsonValue(_, _), jsonMembers(_, _, _)

\* the value that opens at position i, white space skipped
jsonValueAt(s, i) ==
  CASE At(s, i) = Quote -> jsonString(s, i)
    [] At(s, i) \in Range(Digits) -> jsonNumber(s, i)
    [] LitAt(s, i, <<"t","r","u","e">>) -> JsonOk(Bool(TRUE), i + 4)
    [] LitAt(s, i, <<"f","a","l","s","e">>) -> JsonOk(Bool(FALSE), i + 5)
    [] LitAt(s, i, <<"n","u","l","l">>) -> JsonOk(Null, i + 4)
    [] At(s, i) = "{" /\ At(s, SkipWs(s, i + 1)) = "}" ->
         JsonOk(Obj(<<>>), SkipWs(s, i + 1) + 1)
    [] At(s, i) = "{" -> jsonMembers(s, SkipWs(s, i + 1), Obj(<<>>))
    [] OTHER -> JsonFail

jsonValue(s, i0) == jsonValueAt(s, SkipWs(s, i0))

\* after a member "k": v, at position d: a comma and more members, or the end
jsonMemberEnd(s, d, next) ==
  CASE At(s, d) = "," -> jsonMembers(s, SkipWs(s, d + 1), next)
    [] At(s, d) = "}" -> JsonOk(next, d + 1)
    [] OTHER -> JsonFail

\* the member whose key k and value v were read
jsonMember(s, acc, k, v) ==
  IF ~v.ok THEN JsonFail ELSE jsonMemberEnd(s, SkipWs(s, v.next), Put(acc, k.v.s, v.v))

\* the member whose key k was read, c the position of its colon
jsonMemberValue(s, acc, k, c) ==
  IF At(s, c) # ":" THEN JsonFail ELSE jsonMember(s, acc, k, jsonValue(s, c + 1))

\* the member whose key k was read
jsonMemberKey(s, acc, k) ==
  IF ~k.ok THEN JsonFail ELSE jsonMemberValue(s, acc, k, SkipWs(s, k.next))

\* the members of an object from position i on, acc the members read so far; a
\* repeated key keeps its first place and takes the last value
jsonMembers(s, i, acc) ==
  IF At(s, i) # Quote THEN JsonFail ELSE jsonMemberKey(s, acc, jsonString(s, i))

\* the whole text must be one value
jsonWhole(s, r) == IF r.ok /\ SkipWs(s, r.next) = Len(s) + 1 THEN r ELSE JsonFail

\* JSON.parse(s): the value, or a failure where JSON.parse throws
JSONparse(s) == jsonWhole(s, jsonValue(s, 1))

jsonOrNull(r) == IF r.ok THEN r.v ELSE Null

\* safeJsonParse(value), value a string, null or undefined
safeJsonParse(value) ==
  IF ~Truthy(value) THEN Null ELSE jsonOrNull(JSONparse(value.s))

(***************************************************************************)
(* parseObjectLiteral                                                      *)
(***************************************************************************)
\* the grave accent U+0060, written out because a TLA+ string cannot hold it
Grave == "grave"

\* the three quote characters of the snippet syntax
QuoteChars == {Quote, "'", Grave}

\* s.replace(/[grave]/g, '"').replace(/'/g, '"')
normalizeQuotes(s) == [i \in DOMAIN s |-> IF s[i] \in {Grave, "'"} THEN Quote ELSE s[i]]

\* [\w-]
WordChars == Range(UpperLetters) \cup Range(LowerLetters) \cup Range(Digits) \cup {"_", "-"}

RECURSIVE quoteBareKeys(_, _)
\* s.replace(/([,{]\s*)([\w-]+)\s*:/g, '$1"$2":')
quoteBareKeys(s, i) ==
  IF i > Len(s) THEN <<>>
  ELSE LET k0 == SkipWs(s, i + 1)
           k1 == SpanEnd(s, k0, WordChars)
           k2 == SkipWs(s, k1)
       IN IF s[i] \in {",", "{"} /\ k1 > k0 /\ At(s, k2) = ":"
          THEN Slice(s, i, k0 - 1) \o <<Quote>> \o Slice(s, k0, k1 - 1) \o <<Quote, ":">>
                 \o quoteBareKeys(s, k2 + 1)
          ELSE <<s[i]>> \o quoteBareKeys(s, i + 1)

RECURSIVE stripTrailingCommas(_, _)
\* s.replace(/,\s*([}\]])/g, '$1')
stripTrailingCommas(s, i) ==
  IF i > Len(s) THEN <<>>
  ELSE LET k == SkipWs(s, i + 1) IN
       IF s[i] = "," /\ At(s, k) \in {"}", "]"}
       THEN <<s[k]>> \o stripTrailingCommas(s, k + 1)
       ELSE <<s[i]>> \o stripTrailingCommas(s, i + 1)

parseObjectLiteral(raw) ==
  LET cleaned == Trim(raw) IN
  IF At(cleaned, 1) # "{" THEN Null
  ELSE safeJsonParse(Str(stripTrailingCommas(quoteBareKeys(normalizeQuotes(cleaned), 1), 1)))

(***************************************************************************)
(* URLSearchParams: the application/x-www-form-urlencoded parser and       *)
(* serializer, over the characters of PercentCodes and the characters the  *)
(* serializer leaves alone.  A parameter list is a sequence of [k, v]      *)
(* records of strings.                                                     *)
(***************************************************************************)
PercentCodes ==
  << [c |-> " ", x |-> <<"2","0">>], [c |-> Quote, x |-> <<"2","2">>],
     [c |-> "#", x |-> <<"2","3">>], [c |-> "%", x |-> <<"2","5">>],
     [c |-> "&", x |-> <<"2","6">>], [c |-> "'", x |-> <<"2","7">>],
     [c |-> "+", x |-> <<"2","B">>], [c |-> ",", x |-> <<"2","C">>],
     [c |-> "/", x |-> <<"2","F">>], [c |-> ":", x |-> <<"3","A">>],
     [c |-> ";", x |-> <<"3","B">>], [c |-> "=", x |-> <<"3","D">>],
     [c |-> "?", x |-> <<"3","F">>], [c |-> "{", x |-> <<"7","B">>],
     [c |-> "}", x |-> <<"7","D">>], [c |-> "\n", x |-> <<"0","A">>] >>

HexDigits == Range(Digits) \cup {"A","B","C","D","E","F","a","b","c","d","e","f"}

UpperChar(c) ==
  IF c \in Range(LowerLetters)
  THEN UpperLetters[CHOOSE i \in DOMAIN LowerLetters : LowerLetters[i] = c]
  ELSE c

\* the characters the urlencoded serializer copies unchanged
UrlSafeChars == Range(UpperLetters) \cup Range(LowerLetters) \cup Range(Digits) \cup {"*", "-", ".", "_"}

\* the character a percent escape with the hexadecimal digits hi, lo stands for
percentDecoded(hi, lo) ==
  PercentCodes[CHOOSE i \in DOMAIN PercentCodes :
                 PercentCodes[i].x = <<UpperChar(hi), UpperChar(lo)>>].c

\* the serialization of one character
percentEncoded(c) ==
  CASE c \in UrlSafeChars -> <<c>>
    [] c = " " -> <<"+">>
    [] OTHER -> <<"%">> \o PercentCodes[CHOOSE i \in DOMAIN PercentCodes : PercentCodes[i].c = c].x

RECURSIVE urlDecode(_, _)
\* a name or a value of a query string decoded: "+" is a space, %XX a character
urlDecode(s, i) ==
  IF i > Len(s) THEN <<>>
  ELSE CASE s[i] = "+" -> <<" ">> \o urlDecode(s, i + 1)
         [] s[i] = "%" /\ At(s, i + 1) \in HexDigits /\ At(s, i + 2) \in HexDigits ->
              <<percentDecoded(s[i + 1], s[i + 2])>> \o urlDecode(s, i + 3)
         [] OTHER -> <<s[i]>> \o urlDecode(s, i + 1)

RECURSIVE urlEncode(_)
urlEncode(s) == IF s = <<>> THEN <<>> ELSE percentEncoded(Head(s)) \o urlEncode(Tail(s))

\* one "name=value" segment of a query string
paramOf(segment) ==
  LET e == IndexFrom(segment, 1, <<"=">>) IN
  IF e = 0 THEN [k |-> urlDecode(segment, 1), v |-> <<>>]
  ELSE [k |-> urlDecode(Slice(segment, 1, e - 1), 1),
        v |-> urlDecode(Slice(segment, e + 1, Len(segment)), 1)]

RECURSIVE paramsOfSegments(_)
paramsOfSegments(segments) ==
  IF segments = <<>> THEN <<>>
  ELSE IF Head(segments) = <<>> THEN paramsOfSegments(Tail(segments))
  ELSE <<paramOf(Head(segments))>> \o paramsOfSegments(Tail(segments))

\* new URLSearchParams(s)
URLSearchParams(s) ==
  paramsOfSegments(SplitOn(IF At(s, 1) = "?" THEN Tail(s) ELSE s, "&"))

\* params.set(k, v): the first k takes the value and the other k are removed;
\* appended when there is no k
paramsSet(params, k, v) ==
  IF \E i \in DOMAIN params : params[i].k = k
  THEN LET first == CHOOSE i \in DOMAIN params :
                      params[i].k = k /\ \A j \in 1..(i - 1) : params[j].k # k
           keep == {i \in DOMAIN params : params[i].k # k \/ i = first}
           RECURSIVE pick(_)
           pick(i) == IF i > Len(params) THEN <<>>
                      ELSE (IF i \in keep
                            THEN <<IF i = first THEN [k |-> k, v |-> v] ELSE params[i]>>
                            ELSE <<>>) \o pick(i + 1)
       IN pick(1)
  ELSE Append(params, [k |-> k, v |-> v])

RECURSIVE paramsToString(_)
\* params.toString()
paramsToString(params) ==
  IF params = <<>> THEN <<>>
  ELSE urlEncode(Head(params).k) \o <<"=">> \o urlEncode(Head(params).v)
         \o (IF Len(params) > 1 THEN <<"&">> ELSE <<>>) \o paramsToString(Tail(params))

RECURSIVE objectOfParams(_, _)
\* for (const [key, value] of params.entries()) result[key] = value
objectOfParams(params, result) ==
  IF params = <<>> THEN result
  ELSE objectOfParams(Tail(params), Put(result, Head(params).k, Str(Head(params).v)))

(***************************************************************************)
(* parseKeyValuePairs, applyBodyDirective                                  *)
(***************************************************************************)
\* parseObjectLiteral(trimmed) || safeJsonParse(trimmed)
literalOrJson(trimmed) == OrElse(parseObjectLiteral(trimmed), safeJsonParse(Str(trimmed)))

\* Object.keys(result).length ? result : null
nonEmptyOrNull(result) == IF Len(result.o) > 0 THEN result ELSE Null

\* parseKeyValuePairs of a trimmed text
keyValuePairs(trimmed) ==
  IF trimmed = <<>> THEN Null
  ELSE IF At(trimmed, 1) = "{" THEN literalOrJson(trimmed)
  ELSE IF ~Includes(trimmed, <<"=">>) /\ ~Includes(trimmed, <<":">>) THEN Null
  ELSE nonEmptyOrNull(objectOfParams(URLSearchParams(trimmed), Obj(<<>>)))

parseKeyValuePairs(raw) == keyValuePairs(Trim(raw))

urlKey == <<"u","r","l">>
methodKey == <<"m","e","t","h","o","d">>
headersKey == <<"h","e","a","d","e","r","s">>
bodyKey == <<"b","o","d","y">>
bodyTypeKey == <<"b","o","d","y","T","y","p","e">>

RawType == <<"r","a","w">>
FormType == <<"f","o","r","m">>
JsonType == <<"j","s","o","n">>

RECURSIVE setAll(_, _)
\* for (const [key, value] of Object.entries(overrides)) baseParams.set(key, value)
setAll(params, props) ==
  IF props = <<>> THEN params
  ELSE setAll(paramsSet(params, Head(props).k, String(Head(props).v)), Tail(props))

\* the directive text replaces the body wholesale
replaceBody(config, trimmed) ==
  Put(Put(config, bodyKey, Str(trimmed)), bodyTypeKey, Str(RawType))

\* a slip: the directive's keys are merged under the body's, so the body wins
mergeUnderBody(config, overrides) ==
  Put(config, bodyKey, Spread(overrides, Get(config, bodyKey)))

\* config.body = { ...config.body, ...overrides }
mergeIntoBody(config, overrides) ==
  Put(config, bodyKey, Spread(Get(config, bodyKey), overrides))

\* if (!config.bodyType) config.bodyType = 'form'
formUnlessTyped(config) ==
  IF ~Truthy(Get(config, bodyTypeKey)) THEN Put(config, bodyTypeKey, Str(FormType)) ELSE config

\* a slip: the override is appended to the encoded body instead of set in it
appendToEncodedBody(config, overrides) ==
  formUnlessTyped(Put(config, bodyKey,
                      Str(Get(config, bodyKey).s \o <<"&">>
                            \o paramsToString(setAll(<<>>, overrides.o)))))

\* the overrides set in a body that is an encoded string
setInEncodedBody(config, overrides) ==
  formUnlessTyped(Put(config, bodyKey,
                      Str(paramsToString(setAll(URLSearchParams(Get(config, bodyKey).s),
                                                overrides.o)))))

\* lines 216-239, trimmed the directive, overrides its key/value pairs, body
\* the current body
bodyDirectiveApplied(config, trimmed, overrides, body) ==
  IF trimmed = <<>> THEN config
  ELSE IF Truthy(body) /\ IsObj(body)
  THEN IF Truthy(overrides) THEN mergeIntoBody(config, overrides)
       ELSE replaceBody(config, trimmed)
  ELSE IF IsStr(body) /\ Len(body.s) > 0 /\ Truthy(overrides)
  THEN setInEncodedBody(config, overrides)
  ELSE replaceBody(config, trimmed)

\* applyBodyDirective(config, directive): the config after the call
applyBodyDirective(config, directive) ==
  bodyDirectiveApplied(config, Trim(directive), parseKeyValuePairs(Trim(directive)),
                       Get(config, bodyKey))

(***************************************************************************)
(* Directives: extractDirective, stripDirectives, parseHeaderDirective     *)
(***************************************************************************)
BodyName == <<"b","o","d","y">>
HeaderName == <<"h","e","a","d","e","r">>

Min(S) == CHOOSE x \in S : \A y \in S : x <= y

\* "#name{" stands at position i of raw, whatever the letter case
directiveOpensAt(raw, i, name) ==
  /\ i + Len(name) + 1 <= Len(raw)
  /\ toLowerCase(SubSeq(raw, i, i + Len(name) + 1)) = <<"#">> \o name \o <<"{">>

\* the positions where one of the directives opens and a "}" follows
directiveStarts(raw, i, names) ==
  {j \in i..Len(raw) :
     \E n \in names :
       directiveOpensAt(raw, j, n) /\ IndexFrom(raw, j + Len(n) + 2, <<"}">>) # 0}

\* the match of the directive n that opens at position j: the positions of its
\* "#", of its "{" and of the first "}" after it
directiveFrom(raw, j, n) ==
  [from |-> j, open |-> j + Len(n) + 1, to |-> IndexFrom(raw, j + Len(n) + 2, <<"}">>)]

directiveAt(raw, j, names) ==
  directiveFrom(raw, j, CHOOSE n \in names : directiveOpensAt(raw, j, n))

leftmostDirective(raw, starts, names) ==
  IF starts = {} THEN [from |-> 0, open |-> 0, to |-> 0]
  ELSE directiveAt(raw, Min(starts), names)

\* the first match of new RegExp(`#${name}\\{([\\s\\S]*?)\\}`, 'i'), at position i
\* or later; from is 0 without a match
directiveMatch(raw, i, names) == leftmostDirective(raw, directiveStarts(raw, i, names), names)

\* match ? match[1].trim() : null
directiveText(raw, m) ==
  IF m.from = 0 THEN Null ELSE Str(Trim(Slice(raw, m.open + 1, m.to - 1)))

\* a slip: the second #name{...} is taken when there is one
extractLaterDirective(raw, name) ==
  IF /\ directiveMatch(raw, 1, {name}).from # 0
     /\ directiveMatch(raw, directiveMatch(raw, 1, {name}).to + 1, {name}).from # 0
  THEN directiveText(raw, directiveMatch(raw, directiveMatch(raw, 1, {name}).to + 1, {name}))
  ELSE directiveText(raw, directiveMatch(raw, 1, {name}))

\* extractDirective(raw, name): the trimmed content of the first #name{...}, or null
extractDirective(raw, name) == directiveText(raw, directiveMatch(raw, 1, {name}))

RECURSIVE removeDirectives(_, _)

\* the text from position i on without the match m and without the later matches
removeMatch(raw, i, m) ==
  IF m.from = 0 THEN Slice(raw, i, Len(raw))
  ELSE Slice(raw, i, m.from - 1) \o removeDirectives(raw, m.to + 1)

\* raw.replace(/#(?:body|header)\{[\s\S]*?\}/gi, '')
removeDirectives(raw, i) == removeMatch(raw, i, directiveMatch(raw, i, {BodyName, HeaderName}))

\* stripDirectives(raw, ['body', 'header'])
stripDirectives(raw) == IF raw = <<>> THEN raw ELSE removeDirectives(raw, 1)

RECURSIVE SplitOnAny(_, _)

\* the part that ends before position e, then the parts after it
partThenRest(s, e, seps) ==
  IF e = 1 THEN SplitOnAny(Tail(s), seps)
  ELSE <<Slice(s, 1, e - 1)>> \o SplitOnAny(Slice(s, e + 1, Len(s)), seps)

\* s.split(/[...]+/) without the empty parts
SplitOnAny(s, seps) ==
  IF s = <<>> THEN <<>>
  ELSE partThenRest(s, SpanEnd(s, 1, {s[i] : i \in DOMAIN s} \ seps), seps)

RECURSIVE pairsInto(_, _)

\* key = pair.slice(0, sepIndex).trim(), value = pair.slice(sepIndex + 1).trim()
pairInto(pair, sepIndex, result) ==
  IF pair = <<>> \/ sepIndex <= 1 \/ Trim(Slice(pair, 1, sepIndex - 1)) = <<>>
  THEN result
  ELSE Put(result, Trim(Slice(pair, 1, sepIndex - 1)),
           Str(Trim(Slice(pair, sepIndex + 1, Len(pair)))))

\* pair.indexOf('=') >= 0 ? pair.indexOf('=') : pair.indexOf(':')
separatorIndex(pair) ==
  IF Includes(pair, <<"=">>) THEN IndexFrom(pair, 1, <<"=">>) ELSE IndexFrom(pair, 1, <<":">>)

\* the loop over the "key=value" / "key:value" parts, shared by
\* parseHeaderDirective and parseNoteVariables
pairsInto(parts, result) ==
  IF parts = <<>> THEN result
  ELSE pairsInto(Tail(parts),
                 pairInto(Trim(Head(parts)), separatorIndex(Trim(Head(parts))), result))

\* the object literal of lines 113-116 when there is one, else the pairs
literalOrPairs(literal, trimmed) ==
  IF Truthy(literal) THEN literal
  ELSE nonEmptyOrNull(pairsInto(SplitOnAny(trimmed, {"&", ";", "\n"}), Obj(<<>>)))

\* parseHeaderDirective of a trimmed text
headerOverridesOf(trimmed) ==
  IF trimmed = <<>> THEN Null
  ELSE literalOrPairs(IF At(trimmed, 1) = "{" THEN literalOrJson(trimmed) ELSE Null, trimmed)

\* parseHeaderDirective(raw): an object of header overrides, or null
parseHeaderDirective(raw) == headerOverridesOf(Trim(raw))

\* one note variable as the note's JSON object gives it
noteVariable(p) == Prop(p.k, Str(String(p.v)))

\* the variables of a note that is a JSON object: its values as strings, the
\* null ones left out
objectVariables(parsed) ==
  PutAll(Obj(<<>>),
         [i \in DOMAIN SelectSeq(parsed.o, LAMBDA p : p.v.t \notin {"undef", "null"}) |->
            noteVariable(SelectSeq(parsed.o, LAMBDA p : p.v.t \notin {"undef", "null"})[i])])

\* lines 172-192, parsed the note as JSON when it opens with "{"
variablesOf(trimmed, parsed) ==
  IF IsObj(parsed) THEN objectVariables(parsed)
  ELSE pairsInto(SplitOnAny(trimmed, {"&", ";", "\r", "\n"}), Obj(<<>>))

\* parseNoteVariables of a trimmed note
noteVariables(trimmed) ==
  IF trimmed = <<>> THEN Obj(<<>>)
  ELSE variablesOf(trimmed, IF At(trimmed, 1) = "{" THEN safeJsonParse(Str(trimmed)) ELSE Null)

\* parseNoteVariables(note), note a string or null
parseNoteVariables(note) == noteVariables(IF Truthy(note) THEN Trim(note.s) ELSE <<>>)

(***************************************************************************)
(* Headers                                                                 *)
(***************************************************************************)
\* findHeaderKey(headers, lowerName): the first key equal to lowerName ignoring
\* case, or null
findHeaderKey(headers, lowerName) ==
  LET hits == {i \in DOMAIN headers.o : toLowerCase(headers.o[i].k) = lowerName} IN
  IF hits = {} THEN Null ELSE Str(headers.o[Min(hits)].k)

hasHeader(headers, name) == findHeaderKey(headers, toLowerCase(name)) # Null

\* setHeader(headers, name, value): the headers after the call
setHeader(headers, name, value) ==
  LET existingKey == findHeaderKey(headers, toLowerCase(name)) IN
  IF Truthy(existingKey) THEN Put(headers, existingKey.s, value) ELSE Put(headers, name, value)

\* one override merged ignoring case: a key that differs only in case is deleted
mergeOneHeader(next, p) ==
  LET existingKey == findHeaderKey(next, toLowerCase(p.k)) IN
  IF Truthy(existingKey) /\ existingKey.s # p.k
  THEN Put(Delete(next, existingKey.s), p.k, p.v)
  ELSE Put(next, p.k, p.v)

RECURSIVE mergeHeaderProps(_, _)
mergeHeaderProps(next, props) ==
  IF props = <<>> THEN next ELSE mergeHeaderProps(mergeOneHeader(next, Head(props)), Tail(props))

\* { ...headers, ...overrides }: keys that differ in case are both kept
spreadHeaders(headers, overrides) == Spread(headers, overrides)

\* mergeHeaders(headers, overrides)
mergeHeaders(headers, overrides) == mergeHeaderProps(headers, overrides.o)

(***************************************************************************)
(* parseRequestTemplate                                                    *)
(***************************************************************************)
ConstWord == <<"c","o","n","s","t">>

\* /const\s+NAME\s*=\s*/ matched at position i: the position after it, or 0
constAssignAt(s, i, name) ==
  IF /\ LitAt(s, i, ConstWord)
     /\ SkipWs(s, i + Len(ConstWord)) > i + Len(ConstWord)
     /\ LitAt(s, SkipWs(s, i + Len(ConstWord)), name)
     /\ At(s, SkipWs(s, SkipWs(s, i + Len(ConstWord)) + Len(name))) = "="
  THEN SkipWs(s, SkipWs(s, SkipWs(s, i + Len(ConstWord)) + Len(name)) + 1)
  ELSE 0

NoMatch == [ok |-> FALSE, v |-> <<>>]
Match(v) == [ok |-> TRUE, v |-> v]

\* the quoted text that opens at position p
quotedAt(s, p) == Match(Slice(s, p + 1, IndexFrom(s, p + 1, <<s[p]>>) - 1))

\* a quote opens at position p and closes later
quotedOpensAt(s, p) == p # 0 /\ At(s, p) \in QuoteChars /\ IndexFrom(s, p + 1, <<At(s, p)>>) # 0

leftmostQuoted(s, name, starts) ==
  IF starts = {} THEN NoMatch ELSE quotedAt(s, constAssignAt(s, Min(starts), name))

\* the first match of /const\s+NAME\s*=\s*([grave'"])([\s\S]*?)\1/: the quoted text
snippetString(s, name) ==
  leftmostQuoted(s, name, {i \in 1..Len(s) : quotedOpensAt(s, constAssignAt(s, i, name))})

\* the text from the "{" at position p to the first "}"
bracedAt(s, p) == Match(Slice(s, p, IndexFrom(s, p + 1, <<"}">>)))

bracedOpensAt(s, p) == p # 0 /\ At(s, p) = "{" /\ IndexFrom(s, p + 1, <<"}">>) # 0

leftmostBraced(s, name, starts) ==
  IF starts = {} THEN NoMatch ELSE bracedAt(s, constAssignAt(s, Min(starts), name))

\* the first match of /const\s+NAME\s*=\s*({[\s\S]*?})/: the text from "{" to the
\* first "}"
snippetObject(s, name) ==
  leftmostBraced(s, name, {i \in 1..Len(s) : bracedOpensAt(s, constAssignAt(s, i, name))})

\* lines 263: headersMatch ? parseObjectLiteral(headersMatch[1]) || undefined : undefined
snippetHeaders(headersMatch) ==
  IF headersMatch.ok THEN OrElse(parseObjectLiteral(headersMatch.v), Undef) ELSE Undef

\* lines 265-270
snippetBody(bodyObjectMatch, bodyStringMatch) ==
  IF bodyObjectMatch.ok
  THEN OrElse(OrElse(parseObjectLiteral(bodyObjectMatch.v),
                     safeJsonParse(Str(bodyObjectMatch.v))), Undef)
  ELSE IF bodyStringMatch.ok THEN Str(bodyStringMatch.v) ELSE Undef

\* lines 272-276
explicitBodyType(rawBodyType) ==
  IF rawBodyType \in {JsonType, FormType, RawType} THEN Str(rawBodyType) ELSE Undef

\* lines 277-282
inferredBodyType(body) ==
  IF IsObj(body) THEN Str(FormType)
  ELSE IF IsStr(body)
  THEN (IF Includes(body.s, <<"=">>) THEN Str(FormType) ELSE Str(RawType))
  ELSE Undef

\* lines 284-290
snippetFields(urlMatch, methodMatch, headers, body, bodyTypeMatch) ==
  Obj(<< Prop(urlKey, Str(urlMatch.v)),
         Prop(methodKey, IF methodMatch.ok THEN Str(methodMatch.v) ELSE Undef),
         Prop(headersKey, headers),
         Prop(bodyKey, body),
         Prop(bodyTypeKey,
              OrElse(explicitBodyType(IF bodyTypeMatch.ok
                                      THEN toLowerCase(Trim(bodyTypeMatch.v)) ELSE <<>>),
                     inferredBodyType(body))) >>)

\* the snippet branch once a url was found
snippetConfig(trimmed) ==
  snippetFields(snippetString(trimmed, urlKey), snippetString(trimmed, methodKey),
                snippetHeaders(snippetObject(trimmed, headersKey)),
                snippetBody(snippetObject(trimmed, bodyKey), snippetString(trimmed, bodyKey)),
                snippetString(trimmed, bodyTypeKey))

\* parsed?.url ? parsed : null
withUrlOrNull(parsed) == IF IsObj(parsed) /\ Truthy(Get(parsed, urlKey)) THEN parsed ELSE Null

\* config = parsed?.url ? parsed : null
jsonConfig(trimmed) == withUrlOrNull(safeJsonParse(Str(trimmed)))

\* config.headers = { ...(config.headers || {}), ...headerOverrides }
headersOverlaid(config, headers, headerOverrides) ==
  IF Truthy(headerOverrides)
  THEN Put(config, headersKey,
           spreadHeaders(IF IsObj(headers) THEN headers ELSE Obj(<<>>), headerOverrides))
  ELSE config

\* the template-level #header directive laid over the template's headers
templateHeaders(config, headerDirective) ==
  headersOverlaid(config, Get(config, headersKey),
                  IF Truthy(headerDirective) THEN parseHeaderDirective(headerDirective.s)
                  ELSE Null)

\* lines 293-306: the directives applied to the template that was read
templateWithDirectives(config, headerDirective, bodyDirective) ==
  IF config = Null THEN Null
  ELSE IF Truthy(bodyDirective)
  THEN applyBodyDirective(templateHeaders(config, headerDirective), bodyDirective.s)
  ELSE templateHeaders(config, headerDirective)

\* lines 250-292: the template read as JSON or as a snippet
templateConfig(trimmed) ==
  IF trimmed = <<>> THEN Null
  ELSE IF At(trimmed, 1) = "{" THEN jsonConfig(trimmed)
  ELSE IF snippetString(trimmed, urlKey).ok THEN snippetConfig(trimmed)
  ELSE Null

\* parseRequestTemplate(raw): the request template, or null
parseRequestTemplate(raw) ==
  templateWithDirectives(templateConfig(Trim(removeDirectives(raw, 1))),
                         extractDirective(raw, HeaderName),
                         extractDirective(raw, BodyName))

\* parseResponseTemplate(raw), raw a string or null
parseResponseTemplate(raw) ==
  IF ~Truthy(raw) THEN Null ELSE OrElse(safeJsonParse(raw), Null)

(***************************************************************************)
(* Response evaluation                                                     *)
(***************************************************************************)
\* x.k or x?.k where x may be any value: undefined unless x is an object with k
PropOf(x, k) == IF IsObj(x) THEN Get(x, k) ELSE Undef

IdentStart == Range(UpperLetters) \cup Range(LowerLetters) \cup {"_", "$"}
IdentChars == IdentStart \cup Range(Digits)

\* the text between the "(" at position e and the ")" that ends body
wrappedIn(trimmed, body, e) ==
  IF At(trimmed, 1) \in IdentStart /\ At(trimmed, e) = "(" /\ At(body, Len(body)) = ")"
     /\ Len(body) > e
  THEN Match(Slice(body, e + 1, Len(body) - 1))
  ELSE NoMatch

\* trimmed.match(/^[a-zA-Z_$][\w$]*\(([\s\S]*)\)\s*;?$/): the text between the
\* parentheses of a JSONP wrapper
jsonpInner(trimmed) ==
  wrappedIn(trimmed,
            IF At(trimmed, Len(trimmed)) = ";"
            THEN TrimRight(Slice(trimmed, 1, Len(trimmed) - 1))
            ELSE trimmed,
            SpanEnd(trimmed, 1, IdentChars))

\* s.lastIndexOf(c), 1-based; 0 when c does not occur
LastIndexOf(s, c) ==
  IF \E i \in DOMAIN s : s[i] = c
  THEN CHOOSE i \in DOMAIN s : s[i] = c /\ \A j \in (i + 1)..Len(s) : s[j] # c
  ELSE 0

\* lines 327-332: the text from the first "{" to the last "}" parsed, or null
bracedSlice(trimmed, firstBrace, lastBrace) ==
  IF firstBrace # 0 /\ lastBrace > firstBrace
  THEN safeJsonParse(Str(Slice(trimmed, firstBrace, lastBrace)))
  ELSE Null

\* lines 324-334, direct the candidate parsed
directOrSlice(trimmed, direct) ==
  IF Truthy(direct) THEN direct
  ELSE bracedSlice(trimmed, IndexFrom(trimmed, 1, <<"{">>), LastIndexOf(trimmed, "}"))

\* functionMatch ? functionMatch[1] : trimmed
candidateOf(trimmed, functionMatch) == IF functionMatch.ok THEN functionMatch.v ELSE trimmed

\* tryParseJsonFromText of the trimmed text
jsonFromText(trimmed) ==
  IF trimmed = <<>> THEN Null
  ELSE directOrSlice(trimmed, safeJsonParse(Str(candidateOf(trimmed, jsonpInner(trimmed)))))

\* tryParseJsonFromText(text): the parsed value, or null
tryParseJsonFromText(text) == jsonFromText(Trim(text))

NotANumber == [t |-> "num", n |-> <<"N","a","N">>]

\* Number(x) for the values a discount field holds
Number(x) ==
  CASE x.t = "num" -> x
    [] x.t = "str" /\ x.s # <<>> /\ \A i \in DOMAIN x.s : x.s[i] \in Range(Digits) ->
         LET z == SpanEnd(x.s, 1, {"0"}) IN
         Num(IF z > Len(x.s) THEN <<"0">> ELSE Slice(x.s, z, Len(x.s)))
    [] x.t = "str" /\ Trim(x.s) = <<>> -> Num(<<"0">>)
    [] x.t = "bool" -> Num(IF x.b THEN <<"1">> ELSE <<"0">>)
    [] x.t = "null" -> Num(<<"0">>)
    [] OTHER -> NotANumber

infoKey == <<"i","n","f","o">>
plateKey == <<"p","l","a","t","e">>
discountchargeKey == <<"d","i","s","c","o","u","n","t","c","h","a","r","g","e">>
needchargeKey == <<"n","e","e","d","c","h","a","r","g","e">>
entertimeKey == <<"e","n","t","e","r","t","i","m","e">>
staytimeKey == <<"s","t","a","y","t","i","m","e">>
errmsgKey == <<"e","r","r","m","s","g">>

\* lines 353-359
discountInfoOf(info) ==
  Obj(<< Prop(plateKey, Str(String(OrElse(Get(info, plateKey), Str(<<>>))))),
         Prop(discountchargeKey, Number(OrElse(Get(info, discountchargeKey), Num(<<"0">>)))),
         Prop(needchargeKey, Str(String(OrElse(Get(info, needchargeKey), Str(<<"0">>))))),
         Prop(entertimeKey, Str(String(OrElse(Get(info, entertimeKey), Str(<<>>))))),
         Prop(staytimeKey, Str(String(OrElse(Get(info, staytimeKey), Str(<<>>))))) >>)

\* lines 350-352, info the info field of the response
discountInfoIn(jsonResponse, info) ==
  IF ~Truthy(jsonResponse) \/ ~IsObj(info) \/ ~HasKey(info, discountchargeKey) THEN Null
  ELSE discountInfoOf(info)

\* extractDiscountInfo(jsonResponse): the discount fields, or null
extractDiscountInfo(jsonResponse) == discountInfoIn(jsonResponse, PropOf(jsonResponse, infoKey))

RECURSIVE jsonQuote(_)
\* the characters of a string inside a JSON string literal
jsonQuote(s) ==
  IF s = <<>> THEN <<>>
  ELSE (IF Head(s) \in {Quote, "\\"} THEN <<"\\", Head(s)>> ELSE <<Head(s)>>) \o jsonQuote(Tail(s))

RECURSIVE JSONstringify(_), stringifyProps(_, _)
\* JSON.stringify(x), x not undefined
JSONstringify(x) ==
  CASE x.t = "str" -> <<Quote>> \o jsonQuote(x.s) \o <<Quote>>
    [] x.t = "num" -> IF x = NotANumber THEN <<"n","u","l","l">> ELSE x.n
    [] x.t = "bool" -> String(x)
    [] x.t = "null" -> String(x)
    [] x.t = "obj" -> <<"{">> \o stringifyProps(SelectSeq(x.o, LAMBDA p : p.v # Undef), TRUE) \o <<"}">>

stringifyProps(props, first) ==
  IF props = <<>> THEN <<>>
  ELSE (IF first THEN <<>> ELSE <<",">>) \o <<Quote>> \o jsonQuote(Head(props).k) \o <<Quote, ":">>
         \o JSONstringify(Head(props).v) \o stringifyProps(Tail(props), FALSE)

\* new RegExp(pattern) throws: of the patterns of the model, those with an
\* unclosed group
regExpThrows(pattern) == Includes(pattern, <<"(">>) /\ ~Includes(pattern, <<")">>)

\* new RegExp(pattern).test(target), for a pattern of literal characters
regExpTest(pattern, target) == Includes(target, pattern)

typeKey == <<"t","y","p","e">>
successKey == <<"s","u","c","c","e","s","s">>
pathKey == <<"p","a","t","h">>
equalsKey == <<"e","q","u","a","l","s">>
regexKey == <<"r","e","g","e","x">>
messagePathKey == <<"m","e","s","s","a","g","e","P","a","t","h">>
redirectPathKey == <<"r","e","d","i","r","e","c","t","P","a","t","h">>

\* a === b
StrictEquals(a, b) == a = b /\ ~IsObj(a)

\* getValueByPath throws when a truthy path is no string (path.replace is not a function)
pathThrows(path) == Truthy(path) /\ ~IsStr(path)

Evaluated(success, message, redirectUrl, json) ==
  [threw |-> FALSE,
   v |-> [success |-> success, message |-> message, redirectUrl |-> redirectUrl, json |-> json]]
EvaluationThrew == [threw |-> TRUE, v |-> Null]
NotEvaluated == [threw |-> FALSE, v |-> Null]

InvalidJsonResponse == [t |-> "fixed", m |-> "Invalid JSON response"]

\* the value a path of the response rule selects: undefined without a path
valueAt(json, path) == IF Truthy(path) THEN getValueByPath(json, path) ELSE Undef

\* a slip: the regex is looked at before equals
ruleHoldsRegexFirst(json, path, equals, regex, targetValue) ==
  IF Truthy(regex)
  THEN regExpTest(String(regex),
                  IF targetValue # Undef THEN String(targetValue) ELSE JSONstringify(json))
  ELSE IF equals # Undef
  THEN StrictEquals(targetValue, equals) \/ String(targetValue) = String(equals)
  ELSE IF Truthy(path) THEN Truthy(targetValue)
  ELSE FALSE

\* lines 380-388: whether the success rule holds of the target value
ruleHolds(json, path, equals, regex, targetValue) ==
  IF equals # Undef
  THEN StrictEquals(targetValue, equals) \/ String(targetValue) = String(equals)
  ELSE IF Truthy(regex)
  THEN regExpTest(String(regex),
                  IF targetValue # Undef THEN String(targetValue) ELSE JSONstringify(json))
  ELSE IF Truthy(path) THEN Truthy(targetValue)
  ELSE FALSE

\* lines 376-389
successOf(json, successRule, path) ==
  IF ~Truthy(successRule) THEN FALSE
  ELSE ruleHolds(json, path, PropOf(successRule, equalsKey), PropOf(successRule, regexKey),
                 valueAt(json, path))

\* lines 379 and 383: the success rule throws
ruleThrows(successRule, path, equals, regex) ==
  /\ Truthy(successRule)
  /\ \/ pathThrows(path)
     \/ equals = Undef /\ Truthy(regex) /\ regExpThrows(String(regex))

\* lines 394-399
evaluatedJson(json, success, messageValue, redirectValue) ==
  Evaluated(success,
            IF messageValue # Undef THEN Str(String(messageValue)) ELSE Undef,
            IF IsStr(redirectValue) THEN redirectValue ELSE Undef,
            json)

\* lines 376-399
evaluateRule(json, successRule, path, messagePath, redirectPath) ==
  IF \/ ruleThrows(successRule, path, PropOf(successRule, equalsKey),
                   PropOf(successRule, regexKey))
     \/ pathThrows(messagePath)
     \/ pathThrows(redirectPath)
  THEN EvaluationThrew
  ELSE evaluatedJson(json, successOf(json, successRule, path), valueAt(json, messagePath),
                     valueAt(json, redirectPath))

\* the json branch of evaluateCustomResponse, json the parsed response
evaluateJson(json, config) ==
  IF ~Truthy(json) THEN Evaluated(FALSE, InvalidJsonResponse, Undef, Undef)
  ELSE evaluateRule(json, PropOf(config, successKey),
                    PropOf(PropOf(config, successKey), pathKey),
                    PropOf(config, messagePathKey), PropOf(config, redirectPathKey))

\* lines 402-410: the text branch of evaluateCustomResponse
evaluateText(responseText, regex, equals) ==
  IF Truthy(regex)
  THEN IF regExpThrows(String(regex)) THEN EvaluationThrew
       ELSE Evaluated(regExpTest(String(regex), responseText), Str(responseText), Undef, Undef)
  ELSE IF equals # Undef
  THEN Evaluated(Includes(responseText, String(equals)), Str(responseText), Undef, Undef)
  ELSE Evaluated(FALSE, Str(responseText), Undef, Undef)

\* line 368
responseType(config) ==
  IF Truthy(PropOf(config, typeKey)) THEN PropOf(config, typeKey)
  ELSE IF \/ Truthy(PropOf(PropOf(config, successKey), pathKey))
          \/ Truthy(PropOf(config, messagePathKey))
          \/ Truthy(PropOf(config, redirectPathKey))
  THEN Str(JsonType)
  ELSE Str(<<"t","e","x","t">>)

\* evaluateCustomResponse(responseText, config): the evaluation, null without a
\* response rule, or an exception
evaluateCustomResponse(responseText, config) ==
  IF ~Truthy(config) THEN NotEvaluated
  ELSE IF responseType(config) = Str(JsonType)
  THEN evaluateJson(tryParseJsonFromText(responseText), config)
  ELSE evaluateText(responseText, PropOf(PropOf(config, successKey), regexKey),
                    PropOf(PropOf(config, successKey), equalsKey))

(***************************************************************************)
(* Request construction                                                    *)
(***************************************************************************)
toUpperCase(s) == [i \in DOMAIN s |-> UpperChar(s[i])]

RECURSIVE replaceTemplates(_, _)
\* replaceTemplates(value, context): the templates of every string replaced
replaceTemplates(value, context) ==
  IF IsStr(value) THEN Str(applyTemplate(value.s, context))
  ELSE IF IsObj(value)
  THEN Obj([i \in DOMAIN value.o |->
              Prop(value.o[i].k, replaceTemplates(value.o[i].v, context))])
  ELSE value

Returned(v) == [threw |-> FALSE, v |-> v]
Threw == [threw |-> TRUE, v |-> Null]

\* params.set(key, value === null ? '' : String(value)) over the entries
formEncoded(resolved) ==
  paramsToString(setAll(<<>>, [i \in DOMAIN resolved.o |->
                                 Prop(resolved.o[i].k,
                                      IF resolved.o[i].v = Null THEN Str(<<>>)
                                      ELSE resolved.o[i].v)]))

\* a slip: a string body is serialised like an object body when the type is json
builtBodyStringified(bodyType, resolved) ==
  IF bodyType = Str(JsonType) THEN Returned(Str(JSONstringify(resolved)))
  ELSE IF IsStr(resolved) THEN Returned(resolved)
  ELSE IF resolved = Null THEN Threw
  ELSE IF IsObj(resolved) THEN Returned(Str(formEncoded(resolved)))
  ELSE Returned(Str(<<>>))

\* lines 421-433, resolved the body with its templates replaced
builtBody(bodyType, resolved) ==
  IF IsStr(resolved) THEN Returned(resolved)
  ELSE IF bodyType = Str(JsonType) THEN Returned(Str(JSONstringify(resolved)))
  ELSE IF resolved = Null THEN Threw
  ELSE IF IsObj(resolved) THEN Returned(Str(formEncoded(resolved)))
  ELSE Returned(Str(<<>>))

\* buildRequestBody(body, bodyType, context): the body text or undefined;
\* Object.entries throws on null
buildRequestBody(body, bodyType, context) ==
  IF body = Undef THEN Returned(Undef)
  ELSE builtBody(bodyType, replaceTemplates(body, context))

noteKey == <<"n","o","t","e">>
nameKey == <<"n","a","m","e">>
phoneKey == <<"p","h","o","n","e">>
extraKey == <<"e","x","t","r","a">>
discountTypeKey == <<"d","i","s","c","o","u","n","t","T","y","p","e">>
jsessionidKey == <<"j","s","e","s","s","i","o","n","i","d">>
refererKey == <<"r","e","f","e","r","e","r">>
scanUrlKey == <<"s","c","a","n","U","r","l">>

CookieName == <<"C","o","o","k","i","e">>
RefererName == <<"R","e","f","e","r","e","r">>
ContentTypeName == <<"C","o","n","t","e","n","t","-","T","y","p","e">>
SessionCookie == <<"J","S","E","S","S","I","O","N","I","D","=">>
JsonContentType == <<"a","p","p","l","i","c","a","t","i","o","n","/","j","s","o","n">>
FormContentType == <<"a","p","p","l","i","c","a","t","i","o","n","/","x","-","w","w","w","-","f","o","r","m","-","u","r","l","e","n","c","o","d","e","d",";"," ","c","h","a","r","s","e","t","=","U","T","F","-","8">>
PostMethod == <<"P","O","S","T">>
GetMethod == <<"G","E","T">>

\* line 514: the note without its directives
cleanNote(noteRaw) ==
  IF Truthy(noteRaw) THEN Str(Trim(stripDirectives(noteRaw.s))) ELSE Null

\* ...(x || {})
objectOrEmpty(x) == IF IsObj(x) THEN x ELSE Obj(<<>>)

\* a slip: the caller's extra entries are laid under the note variables
contextExtraFirst(discountType, plateNumber, discountTypeCode, contextOverrides, cleanedNote) ==
  Spread(Spread(Obj(<< Prop(plateKey, Str(plateNumber)),
                       Prop(discountTypeKey, Str(discountTypeCode)),
                       Prop(jsessionidKey, OrElse(discountType.jsessionid, Undef)),
                       Prop(refererKey, OrElse(discountType.refererUrl, Undef)),
                       Prop(scanUrlKey, OrElse(discountType.scanUrl, Undef)),
                       Prop(noteKey, OrElse(cleanedNote, Undef)),
                       Prop(nameKey, OrElse(PropOf(contextOverrides, nameKey), Undef)),
                       Prop(phoneKey, OrElse(PropOf(contextOverrides, phoneKey), Undef)) >>),
                objectOrEmpty(PropOf(contextOverrides, extraKey))),
         parseNoteVariables(cleanedNote))

\* lines 515-527, cleanedNote the note without its directives
contextOf(discountType, plateNumber, discountTypeCode, contextOverrides, cleanedNote) ==
  Spread(Spread(Obj(<< Prop(plateKey, Str(plateNumber)),
                       Prop(discountTypeKey, Str(discountTypeCode)),
                       Prop(jsessionidKey, OrElse(discountType.jsessionid, Undef)),
                       Prop(refererKey, OrElse(discountType.refererUrl, Undef)),
                       Prop(scanUrlKey, OrElse(discountType.scanUrl, Undef)),
                       Prop(noteKey, OrElse(cleanedNote, Undef)),
                       Prop(nameKey, OrElse(PropOf(contextOverrides, nameKey), Undef)),
                       Prop(phoneKey, OrElse(PropOf(contextOverrides, phoneKey), Undef)) >>),
                parseNoteVariables(cleanedNote)),
         objectOrEmpty(PropOf(contextOverrides, extraKey)))

\* lines 511-527: the template context of one submission
templateContext(discountType, plateNumber, discountTypeCode, contextOverrides) ==
  contextOf(discountType, plateNumber, discountTypeCode, contextOverrides,
            cleanNote(PropOf(contextOverrides, noteKey)))

\* lines 512-513: a directive of the note, or null
noteDirective(noteRaw, name) ==
  IF Truthy(noteRaw) THEN extractDirective(noteRaw.s, name) ELSE Null

\* lines 529-536: the template copied
copyConfig(requestConfig) ==
  Put(Put(requestConfig, headersKey, OrElse(Get(requestConfig, headersKey), Undef)),
      bodyKey, Get(requestConfig, bodyKey))

\* lines 540-542
withHeaderOverrides(copied, headerOverrides) ==
  IF Truthy(headerOverrides)
  THEN Put(copied, headersKey,
           mergeHeaders(OrElse(Get(copied, headersKey), Obj(<<>>)), headerOverrides))
  ELSE copied

\* lines 538-543: the note's #header directive applied
withNoteHeaders(copied, noteHeaderDirective) ==
  withHeaderOverrides(copied,
                      IF Truthy(noteHeaderDirective)
                      THEN parseHeaderDirective(noteHeaderDirective.s) ELSE Null)

\* lines 545-547: the note's #body directive applied
withNoteBody(withHeaders, noteBodyDirective) ==
  IF Truthy(noteBodyDirective) THEN applyBodyDirective(withHeaders, noteBodyDirective.s)
  ELSE withHeaders

\* lines 529-547, noteRaw the note as submitted
configWithNote(requestConfig, noteRaw) ==
  withNoteBody(withNoteHeaders(copyConfig(requestConfig), noteDirective(noteRaw, HeaderName)),
               noteDirective(noteRaw, BodyName))

\* lines 529-547: the template with the note's #header and #body directives applied
effectiveConfig(requestConfig, contextOverrides) ==
  configWithNote(requestConfig, PropOf(contextOverrides, noteKey))

\* a slip: the session cookie is set whether or not a cookie is present
cookieAlways(headers, context) ==
  IF Truthy(Get(context, jsessionidKey))
  THEN setHeader(headers, CookieName, Str(SessionCookie \o String(Get(context, jsessionidKey))))
  ELSE headers

\* lines 553-555: the session cookie, unless the template sets a cookie
withCookie(headers, context) ==
  IF ~hasHeader(headers, CookieName) /\ Truthy(Get(context, jsessionidKey))
  THEN setHeader(headers, CookieName, Str(SessionCookie \o String(Get(context, jsessionidKey))))
  ELSE headers

\* lines 557-560: the templates of every header value replaced
resolveHeaders(headers, context) ==
  Obj([i \in DOMAIN headers.o |->
         Prop(headers.o[i].k, Str(applyTemplate(String(headers.o[i].v), context)))])

\* lines 562-564: the referer, unless the template sets one
withReferer(resolvedHeaders, context) ==
  IF ~hasHeader(resolvedHeaders, RefererName) /\ Truthy(Get(context, refererKey))
  THEN setHeader(resolvedHeaders, RefererName, Get(context, refererKey))
  ELSE resolvedHeaders

\* lines 551-564: the headers with the session cookie, the templates replaced
\* and the referer
requestHeaders(config, context) ==
  withReferer(resolveHeaders(withCookie(OrElse(Get(config, headersKey), Obj(<<>>)), context),
                             context),
              context)

\* line 568
resolvedBodyType(config) ==
  OrElse(Get(config, bodyTypeKey),
         IF Get(config, bodyKey).t \in {"obj", "null"} THEN Str(FormType) ELSE Undef)

\* a slip: the body is built whatever the method is
requestBodyAnyMethod(method, config, context) ==
  buildRequestBody(Get(config, bodyKey), resolvedBodyType(config), context)

\* lines 566-569: the body, built unless the method is GET
requestBody(method, config, context) ==
  IF method # GetMethod
  THEN buildRequestBody(Get(config, bodyKey), resolvedBodyType(config), context)
  ELSE Returned(Undef)

\* lines 570-578: the content type a body type implies
contentTypeFor(bodyType, headers) ==
  IF bodyType = Str(JsonType) THEN setHeader(headers, ContentTypeName, Str(JsonContentType))
  ELSE IF bodyType = Str(FormType)
  THEN setHeader(headers, ContentTypeName, Str(FormContentType))
  ELSE headers

\* a slip: the default content type is set whether or not one is present
contentTypeOverwritten(method, config, headers) ==
  IF method = GetMethod THEN headers
  ELSE contentTypeFor(resolvedBodyType(config), headers)

\* lines 570-578: the content type the body type implies, unless one is set
contentTypeHeaders(method, config, headers) ==
  IF method = GetMethod \/ hasHeader(headers, ContentTypeName) THEN headers
  ELSE contentTypeFor(resolvedBodyType(config), headers)

Request(site, url, method, headers, body) ==
  [site |-> site, url |-> url, method |-> method, headers |-> headers, body |-> body]

\* lines 581-585: the fetch call, body the body as built
fetchArguments(config, context, url, method, body) ==
  IF body.threw THEN Threw
  ELSE Returned(Request("custom", applyTemplate(url.s, context), method,
                        contentTypeHeaders(method, config, requestHeaders(config, context)),
                        body.v))

\* lines 566-585, method the method in upper case
requestBy(config, context, url, method) ==
  fetchArguments(config, context, url, method, requestBody(method, config, context))

\* lines 549-585: value.replace and toUpperCase exist on strings only
requestTo(config, context, url, methodValue) ==
  IF ~IsStr(url) \/ ~IsStr(methodValue) THEN Threw
  ELSE requestBy(config, context, url, toUpperCase(methodValue.s))

\* lines 549-585, config the template with the note's directives applied
requestFrom(config, context) ==
  requestTo(config, context, Get(config, urlKey),
            OrElse(Get(config, methodKey), Str(PostMethod)))

\* lines 511-585: the arguments of the custom fetch call, or an exception
customRequest(requestConfig, discountType, plateNumber, discountTypeCode, contextOverrides) ==
  requestFrom(effectiveConfig(requestConfig, contextOverrides),
              templateContext(discountType, plateNumber, discountTypeCode, contextOverrides))

(***************************************************************************)
(* The legacy request                                                      *)
(***************************************************************************)
PARKING_API_URL ==
  <<"h","t","t","p",":","/","/","w","w","w",".","s","z","d","a","q","i","n",".","c","n","/","s","h","o","p","D","i","s","c","o","u","n","t","/","g","o","D","i","c","o","u","n","t",".","d","o","?","r","e","s","p","o","n","s","e","F","u","n","c","t","i","o","n","=","g","o","D","i","c","o","u","n","t","&","q","u","e","r","y","t","y","p","e","=","0">>

DEFAULT_BODY_PARAMS ==
  Obj(<< Prop(<<"i","d">>, Str(<<"8">>)),
         Prop(<<"b","u","s","i","n","e","s","s","i","d">>, Str(<<"3">>)),
         Prop(<<"p","a","r","k","i","d">>, Str(<<"2","2","9">>)),
         Prop(<<"t","y","p","e">>, Str(<<"n","u","l","l">>)),
         Prop(<<"s","e","r","i","a","l","N","u","m","b","e","r">>, Str(<<>>)),
         Prop(<<"o","r","d","e","r","n","o">>, Str(<<>>)),
         Prop(<<"t","o","t","a","l","c","o","u","n","t">>, Str(<<"1">>)) >>)

\* lines 630-641
legacyHeaders(jsessionid, referer) ==
  LET headers ==
        Obj(<< Prop(<<"X","-","R","e","q","u","e","s","t","e","d","-","W","i","t","h">>, Str(<<"X","M","L","H","t","t","p","R","e","q","u","e","s","t">>)),
               Prop(ContentTypeName, Str(FormContentType)),
               Prop(<<"O","r","i","g","i","n">>, Str(<<"h","t","t","p",":","/","/","w","w","w",".","s","z","d","a","q","i","n",".","c","n">>)),
               Prop(<<"A","c","c","e","p","t">>, Str(<<"t","e","x","t","/","p","l","a","i","n",","," ","*","/","*",";"," ","q","=","0",".","0","1">>)),
               Prop(<<"A","c","c","e","p","t","-","L","a","n","g","u","a","g","e">>, Str(<<"z","h","-","C","N",",","z","h",";","q","=","0",".","9",",","e","n",";","q","=","0",".","8">>)),
               Prop(<<"U","s","e","r","-","A","g","e","n","t">>, Str(<<"M","o","z","i","l","l","a","/","5",".","0"," ","(","i","P","h","o","n","e",";"," ","C","P","U"," ","i","P","h","o","n","e"," ","O","S"," ","1","8","_","7"," ","l","i","k","e"," ","M","a","c"," ","O","S"," ","X",")"," ","A","p","p","l","e","W","e","b","K","i","t","/","6","0","5",".","1",".","1","5"," ","(","K","H","T","M","L",","," ","l","i","k","e"," ","G","e","c","k","o",")"," ","V","e","r","s","i","o","n","/","2","6",".","2"," ","M","o","b","i","l","e","/","1","5","E","1","4","8"," ","S","a","f","a","r","i","/","6","0","4",".","1">>)),
               Prop(CookieName, Str(SessionCookie \o String(jsessionid))) >>)
  IN IF Truthy(referer) THEN Put(headers, RefererName, referer) ELSE headers

\* lines 644-651
legacyBody(storedPostParams, plateNumber) ==
  LET bodyParams == Put(Spread(DEFAULT_BODY_PARAMS,
                               IF IsObj(storedPostParams) THEN storedPostParams ELSE Obj(<<>>)),
                        plateKey, Str(plateNumber))
  IN paramsToString(setAll(<<>>, bodyParams.o))

\* lines 625-658: the arguments of the legacy fetch call
legacyRequest(discountType, plateNumber) ==
  Request("legacy", PARKING_API_URL, PostMethod,
          legacyHeaders(discountType.jsessionid, discountType.refererUrl),
          Str(legacyBody(safeJsonParse(discountType.postParams), plateNumber)))

(***************************************************************************)
(* Results                                                                 *)
(***************************************************************************)
\* a message the code spells out, with the name or the code it mentions
Message(m) == [t |-> "fixed", m |-> m]
MessageFor(m, about) == [t |-> "fixed", m |-> m, about |-> about]

Result(success, message, rawResponse, redirectUrl, discountInfo) ==
  [success |-> success, message |-> message, rawResponse |-> rawResponse,
   redirectUrl |-> redirectUrl, discountInfo |-> discountInfo]

Failure(message) == Result(FALSE, message, Undef, Undef, Undef)

TypeNotSet == Message("Discount type not set")
TypeNotFound(code) == MessageFor("Discount type not found", code)
ResponseTemplateParseFailed(name) == MessageFor("Custom response template parse failed", name)
RequestTemplateEmpty(name) == MessageFor("Custom request enabled but template is empty", name)
RequestTemplateParseFailed(name) == MessageFor("Custom request template parse failed", name)
MissingSessionId(name) == MessageFor("missing Session ID", name)
RequestFailed == Message("Request failed")
LegacyRequestFailed == Message("Parking discount request failed")
RequestSystemFailed == Message("Failed to request parking system")

\* lines 484-485
customRequestRaw(discountType) ==
  IF discountType.useCustomRequest
  THEN (IF IsStr(discountType.requestTemplate) THEN Str(Trim(discountType.requestTemplate.s))
        ELSE Undef)
  ELSE Str(<<>>)

Return(result) == [kind |-> "return", result |-> result, request |-> Null]
Fetch(request) == [kind |-> "fetch", result |-> Null, request |-> request]
Throw == [kind |-> "throw", result |-> Null, request |-> Null]

\* a slip: a template that does not parse is answered with the legacy request
templateUnparsedToLegacy(discountType, plateNumber) ==
  Fetch(legacyRequest(discountType, plateNumber))

\* lines 504-509
templateUnparsed(discountType, plateNumber) ==
  Return(Failure(RequestTemplateParseFailed(discountType.name)))

\* a slip: the legacy request goes out without a session id
legacyUnchecked(discountType, plateNumber) ==
  Fetch(legacyRequest(discountType, plateNumber))

\* lines 618-658: the legacy branch up to its fetch call
legacyBranch(discountType, plateNumber) ==
  IF ~Truthy(discountType.jsessionid)
  THEN Return(Failure(MissingSessionId(discountType.name)))
  ELSE Fetch(legacyRequest(discountType, plateNumber))

\* lines 549-585: the fetch call, or the exception of building it
fetchOrThrow(built) == IF built.threw THEN Throw ELSE Fetch(built.v)

\* lines 503-585, requestConfig the template parsed
customBranchWith(discountType, plateNumber, discountTypeCode, contextOverrides, requestConfig) ==
  IF requestConfig = Null THEN templateUnparsed(discountType, plateNumber)
  ELSE fetchOrThrow(customRequest(requestConfig, discountType, plateNumber, discountTypeCode,
                                  contextOverrides))

\* lines 502-585: the custom branch up to its fetch call
customBranch(discountType, plateNumber, discountTypeCode, contextOverrides) ==
  customBranchWith(discountType, plateNumber, discountTypeCode, contextOverrides,
                   parseRequestTemplate(customRequestRaw(discountType).s))

\* a slip: the request template is examined before the response template
prepareRequestFirst(discountType, plateNumber, discountTypeCode, contextOverrides) ==
  IF discountType = Null THEN Return(Failure(TypeNotFound(discountTypeCode)))
  ELSE IF discountType.useCustomRequest /\ ~Truthy(customRequestRaw(discountType))
  THEN Return(Failure(RequestTemplateEmpty(discountType.name)))
  ELSE IF Truthy(discountType.responseTemplate)
          /\ parseResponseTemplate(discountType.responseTemplate) = Null
  THEN Return(Failure(ResponseTemplateParseFailed(discountType.name)))
  ELSE IF Truthy(customRequestRaw(discountType))
  THEN customBranch(discountType, plateNumber, discountTypeCode, contextOverrides)
  ELSE legacyBranch(discountType, plateNumber)

\* lines 477-658: from the loaded discount type to the first of a return, a
\* fetch call or an exception
prepare(discountType, plateNumber, discountTypeCode, contextOverrides) ==
  IF discountType = Null THEN Return(Failure(TypeNotFound(discountTypeCode)))
  ELSE IF Truthy(discountType.responseTemplate)
          /\ parseResponseTemplate(discountType.responseTemplate) = Null
  THEN Return(Failure(ResponseTemplateParseFailed(discountType.name)))
  ELSE IF discountType.useCustomRequest /\ ~Truthy(customRequestRaw(discountType))
  THEN Return(Failure(RequestTemplateEmpty(discountType.name)))
  ELSE IF Truthy(customRequestRaw(discountType))
  THEN customBranch(discountType, plateNumber, discountTypeCode, contextOverrides)
  ELSE legacyBranch(discountType, plateNumber)

\* a slip: the evaluated result is returned without the response text
customResultWithoutRaw(responseText, ok, evaluated, info) ==
  IF evaluated.threw THEN Threw
  ELSE IF evaluated.v # Null
  THEN Returned(Result(evaluated.v.success, evaluated.v.message, Undef,
                       evaluated.v.redirectUrl,
                       OrElse(extractDiscountInfo(evaluated.v.json), Undef)))
  ELSE IF Truthy(info)
  THEN Returned(Result(TRUE, Undef, Str(responseText), Undef, info))
  ELSE Returned(Result(ok, IF ok THEN Undef ELSE RequestFailed, Str(responseText),
                       Undef, Undef))

\* a slip: discount fields in the response make a success of any verdict
customResultInfoFirst(responseText, ok, evaluated, info) ==
  IF evaluated.threw THEN Threw
  ELSE IF Truthy(info)
  THEN Returned(Result(TRUE, Undef, Str(responseText), Undef, info))
  ELSE IF evaluated.v # Null
  THEN Returned(Result(evaluated.v.success, evaluated.v.message, Str(responseText),
                       evaluated.v.redirectUrl,
                       OrElse(extractDiscountInfo(evaluated.v.json), Undef)))
  ELSE Returned(Result(ok, IF ok THEN Undef ELSE RequestFailed, Str(responseText),
                       Undef, Undef))

\* lines 590-615, evaluated the evaluation of the response rule and info the
\* discount fields of the response
customResultOf(responseText, ok, evaluated, info) ==
  IF evaluated.threw THEN Threw
  ELSE IF evaluated.v # Null
  THEN Returned(Result(evaluated.v.success, evaluated.v.message, Str(responseText),
                       evaluated.v.redirectUrl,
                       OrElse(extractDiscountInfo(evaluated.v.json), Undef)))
  ELSE IF Truthy(info)
  THEN Returned(Result(TRUE, Undef, Str(responseText), Undef, info))
  ELSE Returned(Result(ok, IF ok THEN Undef ELSE RequestFailed, Str(responseText),
                       Undef, Undef))

\* lines 587-615: the result of the custom branch from the response, or an
\* exception of the evaluation
customResult(responseText, ok, customResponse) ==
  customResultOf(responseText, ok, evaluateCustomResponse(responseText, customResponse),
                 extractDiscountInfo(tryParseJsonFromText(responseText)))

\* lines 674-680
legacyErrorMessage(errmsg) ==
  IF Truthy(errmsg) /\ errmsg # Str(<<"o","k">>) THEN Str(String(errmsg))
  ELSE LegacyRequestFailed

\* a slip: a legacy response without discount fields counts as a success
legacyResultOptimistic(responseText, info, errmsg) ==
  IF Truthy(info) THEN Returned(Result(TRUE, Undef, Str(responseText), Undef, info))
  ELSE Returned(Result(TRUE, Undef, Str(responseText), Undef, Undef))

\* lines 665-686, info the discount fields of the response
legacyResultOf(responseText, info, errmsg) ==
  IF Truthy(info) THEN Returned(Result(TRUE, Undef, Str(responseText), Undef, info))
  ELSE Returned(Result(FALSE, legacyErrorMessage(errmsg), Str(responseText), Undef, Undef))

\* lines 663-686, jsonResponse the response parsed
legacyResultFrom(responseText, jsonResponse) ==
  legacyResultOf(responseText, extractDiscountInfo(jsonResponse),
                 PropOf(PropOf(jsonResponse, infoKey), errmsgKey))

\* lines 660-686: the result of the legacy branch from the response
legacyResult(responseText) == legacyResultFrom(responseText, tryParseJsonFromText(responseText))

(***************************************************************************)
(* sendParkingDiscount: one invocation, split at its awaits                *)
(***************************************************************************)
NoneCode == <<"n","o","n","e">>
TypeCode == <<"4","h","o","u","r">>
OtherCode == <<"5","d","a","y">>
TypeName == <<"F","o","u","r"," ","h","o","u","r","s">>
PlateNumbers == { <<"A","1">> }

RequestTemplates ==
  { Null,
    Str(<<" ">>),
    Str(<<"x">>),
    Str(<<"{","\"","u","r","l","\"",":","\"","h",":","{","{","p","l","a","t","e","}","}","\"",",","\"","m","e","t","h","o","d","\"",":","\"","g","e","t","\"",",","\"","b","o","d","y","\"",":","{","\"","a","\"",":","\"","1","\"","}","}">>),
    Str(<<"{","\"","u","r","l","\"",":","\"","h",":","x","\"",",","\"","h","e","a","d","e","r","s","\"",":","{","\"","C","o","n","t","e","n","t","-","T","y","p","e","\"",":","\"","a","\"","}","}","#","h","e","a","d","e","r","{","c","o","n","t","e","n","t","-","t","y","p","e","=","b","}">>),
    Str(<<"{","\"","u","r","l","\"",":","5","}">>),
    Str(<<"{","\"","u","r","l","\"",":","\"","h",":","x","\"",",","\"","b","o","d","y","\"",":","n","u","l","l","}">>),
    Str(<<"{","\"","u","r","l","\"",":","\"","h",":","x","\"",",","\"","m","e","t","h","o","d","\"",":","7","}">>),
    Str(<<"c","o","n","s","t"," ","u","r","l"," ","="," ","\"","\"",";">>),
    Str(<<"c","o","n","s","t"," ","u","r","l"," ","="," ","\"","h",":","x","\"",";"," ","c","o","n","s","t"," ","m","e","t","h","o","d"," ","="," ","\"","G","E","T","\"",";"," ","c","o","n","s","t"," ","b","o","d","y"," ","="," ","\"","a","=","1","\"",";">>),
    Str(<<"{","\"","u","r","l","\"",":","\"","h",":","x","\"",",","\"","m","e","t","h","o","d","\"",":","\"","G","E","T","\"","}","#","b","o","d","y","{","a","=","2","}">>),
    Str(<<"{","\"","u","r","l","\"",":","\"","h",":","x","\"",",","\"","b","o","d","y","T","y","p","e","\"",":","\"","j","s","o","n","\"",",","\"","b","o","d","y","\"",":","{","\"","a","\"",":","\"","{","{","n","o","t","e","}","}","\"","}","}">>),
    Str(<<"{","\"","u","r","l","\"",":","\"","h",":","x","\"",",","\"","b","o","d","y","\"",":","\"","a","=","1","\"","}">>) }

ResponseTemplates ==
  { Null,
    Str(<<"x">>),
    Str(<<"0">>),
    Str(<<"{","\"","s","u","c","c","e","s","s","\"",":","{","\"","p","a","t","h","\"",":","\"","i","n","f","o",".","e","r","r","m","s","g","\"",",","\"","e","q","u","a","l","s","\"",":","\"","o","k","\"","}",",","\"","m","e","s","s","a","g","e","P","a","t","h","\"",":","\"","i","n","f","o",".","e","r","r","m","s","g","\"","}">>),
    Str(<<"{","\"","s","u","c","c","e","s","s","\"",":","{","\"","r","e","g","e","x","\"",":","\"","o","k","\"","}","}">>),
    Str(<<"{","\"","s","u","c","c","e","s","s","\"",":","{","\"","r","e","g","e","x","\"",":","\"","(","\"","}","}">>),
    Str(<<"{","\"","s","u","c","c","e","s","s","\"",":","{","\"","p","a","t","h","\"",":","5","}","}">>) }

DiscountType(useCustomRequest, requestTemplate, responseTemplate, jsessionid, refererUrl, postParams) ==
  [code |-> TypeCode, name |-> TypeName, useCustomRequest |-> useCustomRequest,
   requestTemplate |-> requestTemplate, responseTemplate |-> responseTemplate,
   jsessionid |-> jsessionid, refererUrl |-> refererUrl, scanUrl |-> Null,
   postParams |-> postParams]

SessionIds == { Null, Str(<<>>), Str(<<"s","1">>) }
RefererUrls == { Null, Str(<<"h",":","r">>) }
PostParams == { Null, Str(<<"{","\"","a","d","p","o","s","i","d","\"",":","\"","5","\"",",","\"","i","d","\"",":","\"","9","\"","}">>) }

CustomDiscountTypes ==
  { DiscountType(TRUE, q, r, j, Null, Null) :
      q \in RequestTemplates, r \in ResponseTemplates, j \in {Null, Str(<<"s","1">>)} }

LegacyDiscountTypes ==
  { DiscountType(FALSE, q, r, j, f, p) :
      q \in {Null, Str(<<"{","\"","u","r","l","\"",":","\"","h",":","x","\"",",","\"","b","o","d","y","\"",":","\"","a","=","1","\"","}">>)},
      r \in {Null, Str(<<"x">>), Str(<<"0">>)}, j \in SessionIds, f \in RefererUrls, p \in PostParams }

DiscountTypeTables == { {d} : d \in CustomDiscountTypes \cup LegacyDiscountTypes }

Notes ==
  { Null,
    Str(<<"n">>),
    Str(<<"#","b","o","d","y","{","a","=","2","}">>),
    Str(<<"k","=","v"," ","#","h","e","a","d","e","r","{","C","o","n","t","e","n","t","-","T","y","p","e","=","c","}">>) }

ContextOverrides ==
  { Undef }
    \cup { Obj(<<Prop(noteKey, n)>>) : n \in Notes }
    \cup { Obj(<< Prop(noteKey, Str(<<"n">>)), Prop(nameKey, Str(<<"L","i">>)),
                  Prop(phoneKey, Null),
                  Prop(extraKey, Obj(<<Prop(jsessionidKey, Str(<<"s","2">>))>>)) >>) }

ResponseTexts ==
  { <<>>,
    <<"x">>,
    <<"{","\"","i","n","f","o","\"",":","{","\"","d","i","s","c","o","u","n","t","c","h","a","r","g","e","\"",":","1","}","}">>,
    <<"{","\"","i","n","f","o","\"",":","{","\"","e","r","r","m","s","g","\"",":","\"","n","o","\"","}","}">>,
    <<"c","b","(","{","\"","i","n","f","o","\"",":","{","\"","e","r","r","m","s","g","\"",":","\"","o","k","\"","}","}",")",";">> }

\* getDiscountTypeByCode(code) once it resolves: the row, or null
getDiscountTypeByCode(code) ==
  IF \E d \in discountTypes : d.code = code
  THEN CHOOSE d \in discountTypes : d.code = code
  ELSE Null

Init ==
  /\ pc = "idle"
  /\ call = Null
  /\ discountTypes \in DiscountTypeTables
  /\ loadedType = Undef
  /\ requests = <<>>
  /\ response = Null
  /\ returnValue = Null
  /\ errorLog = <<>>
  /\ fn = "none"
  /\ args = <<>>
  /\ ret = <<>>
  /\ fnpc = "none"

\* a slip: the catch clause logs the error and throws it again
rethrowError(error) == [pc |-> "thrown", result |-> Null]

\* lines 687-693: the catch clause returns the generic failure
catchError(error) == [pc |-> "returned", result |-> Failure(RequestSystemFailed)]

\* an exception inside the try block reaches the catch clause
Catch(error) ==
  /\ pc' = catchError(error).pc
  /\ returnValue' = catchError(error).result
  /\ errorLog' = Append(errorLog, error)

\* lines 465-475: the call, up to the await of the discount type
Call(plateNumber, discountTypeCode, contextOverrides) ==
  /\ pc = "idle"
  /\ call' = [plateNumber |-> plateNumber, discountTypeCode |-> discountTypeCode,
              contextOverrides |-> contextOverrides]
  /\ IF discountTypeCode = NoneCode
     THEN pc' = "returned" /\ returnValue' = Failure(TypeNotSet)
     ELSE pc' = "loading" /\ UNCHANGED returnValue
  /\ UNCHANGED <<discountTypes, loadedType, requests, response, errorLog, fnVars>>

\* the outcome p of the code from the loaded discount type to its first await
Prepared(p) ==
  CASE p.kind = "return" ->
         pc' = "returned" /\ returnValue' = p.result /\ UNCHANGED <<requests, errorLog>>
    [] p.kind = "fetch" ->
         pc' = "fetching" /\ requests' = Append(requests, p.request)
           /\ UNCHANGED <<returnValue, errorLog>>
    [] p.kind = "throw" -> Catch("build") /\ UNCHANGED requests

\* lines 475-585 and 618-658: the discount type resolves; the code runs to a
\* return, to an exception or to the await of its fetch call
ConfigLoaded ==
  /\ pc = "loading"
  /\ loadedType' = getDiscountTypeByCode(call.discountTypeCode)
  /\ Prepared(prepare(getDiscountTypeByCode(call.discountTypeCode), call.plateNumber,
                      call.discountTypeCode, call.contextOverrides))
  /\ UNCHANGED <<call, discountTypes, response, fnVars>>

\* line 475: the lookup of the discount type rejects
ConfigFails ==
  /\ pc = "loading"
  /\ Catch("lookup")
  /\ UNCHANGED <<call, discountTypes, loadedType, requests, response, fnVars>>

\* lines 581-587 and 654-660: the fetch resolves and the body is asked for
FetchResolves(ok) ==
  /\ pc = "fetching"
  /\ response' = [ok |-> ok]
  /\ pc' = "reading"
  /\ UNCHANGED <<call, discountTypes, loadedType, requests, returnValue, errorLog, fnVars>>

\* the fetch rejects
FetchRejects ==
  /\ pc = "fetching"
  /\ Catch("fetch")
  /\ UNCHANGED <<call, discountTypes, loadedType, requests, response, fnVars>>

\* the result r of the code after the body has arrived, or its exception
Answered(r) ==
  IF r.threw THEN Catch("evaluate")
  ELSE pc' = "returned" /\ returnValue' = r.v /\ UNCHANGED errorLog

\* lines 587-615 and 660-686: the body arrives and the result is made from it
TextResolves(responseText) ==
  /\ pc = "reading"
  /\ Answered(IF requests[Len(requests)].site = "custom"
              THEN customResult(responseText, response.ok,
                                parseResponseTemplate(loadedType.responseTemplate))
              ELSE legacyResult(responseText))
  /\ UNCHANGED <<call, discountTypes, loadedType, requests, response, fnVars>>

\* response.text() rejects
TextRejects ==
  /\ pc = "reading"
  /\ Catch("text")
  /\ UNCHANGED <<call, discountTypes, loadedType, requests, response, fnVars>>

Next ==
  \/ \E p \in PlateNumbers, c \in {NoneCode, TypeCode, OtherCode}, o \in ContextOverrides :
       Call(p, c, o)
  \/ ConfigLoaded
  \/ ConfigFails
  \/ \E ok \in BOOLEAN : FetchResolves(ok)
  \/ FetchRejects
  \/ \E t \in ResponseTexts : TextResolves(t)
  \/ TextRejects

Spec == Init /\ [][Next]_vars

TypeOK ==
  /\ pc \in {"none", "idle", "loading", "fetching", "reading", "returned"}
  /\ Len(requests) <= 1

(***************************************************************************)
(* Function specifications: Init draws the arguments of one text function  *)
(* from a bounded set and the action applies the function to them.         *)
(***************************************************************************)
\* the main machine at rest while a function specification runs
MainIdle ==
  /\ pc = "none"
  /\ call = Null
  /\ discountTypes = {}
  /\ loadedType = Undef
  /\ requests = <<>>
  /\ response = Null
  /\ returnValue = Null
  /\ errorLog = <<>>

StringsUpTo(alphabet, n) == UNION {[1..k -> alphabet] : k \in 0..n}

TemplateAlphabet == {"{", "}", "a", "#"}

\* values beyond the alphabet: inner white space, a dotted key, a character and
\* the length of a context string, a key the context lacks, a name the token
\* pattern does not accept
ExtraTemplateValues ==
  { <<"{","{"," ","a"," ","}","}">>,
    <<"{","{","a",".","0","}","}">>,
    <<"{","{","a",".","l","e","n","g","t","h","}","}">>,
    <<"{","{",".","}","}">>,
    <<"{","{","b","}","}">>,
    <<"{","{"," ","}","}">>,
    <<"{","{","a"," ","b","}","}">>,
    <<"x","=","{","{","a","}","}","&","y","=","#","{","a","}">>,
    <<"{","{","a","}","}","{","{","a","}","}">> }

TemplateValues == StringsUpTo(TemplateAlphabet, MaxValueLen) \cup ExtraTemplateValues

TemplateContextValues ==
  { <<>>, <<"x">>, <<"x","y">>, <<"{">>, <<"}","}">>, <<"{","{","a","}","}">> }

TemplateContexts ==
  { Obj(<<>>), Obj(<<Prop(<<"a">>, Undef)>>) }
    \cup { Obj(<<Prop(<<"a">>, Str(v))>>) : v \in TemplateContextValues }

InitApplyTemplate ==
  /\ fn = "applyTemplate"
  /\ args \in [value : TemplateValues, context : TemplateContexts]
  /\ ret = <<>>
  /\ fnpc = "ready"
  /\ MainIdle

ApplyTemplateCall ==
  /\ fn = "applyTemplate"
  /\ fnpc = "ready"
  /\ ret' = applyTemplate(args.value, args.context)
  /\ fnpc' = "done"
  /\ UNCHANGED <<fn, args, mainVars>>

SpecApplyTemplate == InitApplyTemplate /\ [][ApplyTemplateCall]_vars

(***************************************************************************)
(* C7                                                                      *)
(***************************************************************************)
NoDoubleBrace(s) == ~Includes(s, <<"{", "{">>) /\ ~Includes(s, <<"}", "}">>)

\* w is a token in the {{name}} spelling: "{{", white space, a name, white space, "}}"
IsBraceToken(w) ==
  /\ Len(w) >= 5
  /\ LitAt(w, 1, <<"{", "{">>)
  /\ LitAt(w, Len(w) - 1, <<"}", "}">>)
  /\ \E p \in 3..(Len(w) - 2) : \E q \in p..(Len(w) - 2) :
       /\ \A k \in 3..(p - 1) : w[k] \in WhiteSpace
       /\ \A k \in p..q : w[k] \in NameChars
       /\ \A k \in (q + 1)..(Len(w) - 2) : w[k] \in WhiteSpace

\* w is a token in the legacy #{name} spelling
IsLegacyToken(w) ==
  /\ Len(w) >= 4
  /\ LitAt(w, 1, <<"#", "{">>)
  /\ w[Len(w)] = "}"
  /\ \A k \in 3..(Len(w) - 1) : w[k] \in NameChars

RECURSIVE OnlyTokensFrom(_, _)
\* from position i on, s is made of tokens and of characters other than braces
OnlyTokensFrom(s, i) ==
  \/ i > Len(s)
  \/ /\ i <= Len(s)
     /\ \/ s[i] \notin {"{", "}"} /\ OnlyTokensFrom(s, i + 1)
        \/ \E e \in i..Len(s) :
             /\ IsBraceToken(SubSeq(s, i, e)) \/ IsLegacyToken(SubSeq(s, i, e))
             /\ OnlyTokensFrom(s, e + 1)

\* every { and } of s belongs to a well-formed token
BracesOnlyInTokens(s) == OnlyTokensFrom(s, 1)

\* the keys of the {{name}} tokens of s
TokenKeys(s) ==
  { k \in UNION { {SubSeq(s, i, j) : j \in i..Len(s)} : i \in 1..Len(s) } :
      \E i \in 1..Len(s) : \E e \in i..Len(s) :
        /\ IsBraceToken(SubSeq(s, i, e))
        /\ \E p \in (i + 2)..(e - 2) : \E q \in p..(e - 2) :
             /\ SubSeq(s, p, q) = k
             /\ \A x \in p..q : s[x] \in NameChars
             /\ \A x \in ((i + 2)..(p - 1)) \cup ((q + 1)..(e - 2)) : s[x] \in WhiteSpace }

ContextValuesBraceFree(context) ==
  \A i \in DOMAIN context.o :
    context.o[i].v.t = "str" =>
      \A k \in DOMAIN context.o[i].v.s : context.o[i].v.s[k] \notin {"{", "}"}

\* C7 as stated: whenever every {{name}} token of the string names a key of the
\* context, the result of applyTemplate holds no "{{" and no "}}".
C7_Original ==
  (fn = "applyTemplate" /\ fnpc = "done"
     /\ \A k \in TokenKeys(args.value) : HasKey(args.context, k))
    => NoDoubleBrace(ret)

\* C7, amended: when every brace of the string belongs to a well-formed token
\* and no context value holds a brace, the result of applyTemplate holds no "{{"
\* and no "}}".
C7_NoBracesLeft ==
  (fn = "applyTemplate" /\ fnpc = "done"
     /\ BracesOnlyInTokens(args.value)
     /\ ContextValuesBraceFree(args.context))
    => NoDoubleBrace(ret)

\* two tokens, one in each spelling, replaced by a non-empty context value
C7_Witness ==
  /\ fn = "applyTemplate" /\ fnpc = "done"
  /\ args.value = <<"x","=","{","{","a","}","}","&","y","=","#","{","a","}">>
  /\ Get(args.context, <<"a">>) = Str(<<"x","y">>)
  /\ ret = <<"x","=","x","y","&","y","=","x","y">>

(***************************************************************************)
(* applyBodyDirective, applied twice to one request template               *)
(***************************************************************************)
\* a directive text is what extractDirective captured: it holds no "}"
DirectiveAlphabet == {"a", "k", "=", "&", ":", " "}

ExtraBodyDirectives ==
  { <<"a","d","p","o","s","i","d","=","5">>,
    <<"a","=","k","&","a","=","a">>,
    <<"a","=","k","+","k">>,
    <<"k","=","%","3","A">>,
    <<"{","a","=","k">>,
    <<"{",Quote,"a",Quote,":",Quote,"k",Quote>> }

BodyDirectives == StringsUpTo(DirectiveAlphabet, MaxDirectiveLen) \cup ExtraBodyDirectives

TemplateBodies ==
  { Undef,
    Str(<<>>),
    Str(<<"a","=","k">>),
    Str(<<"k","=","a","&","a","=","&","k","=","k">>),
    Str(<<"k">>),
    Obj(<<>>),
    Obj(<<Prop(<<"a">>, Str(<<"k">>))>>),
    Obj(<<Prop(<<"t","o","t","a","l","c","o","u","n","t">>, Str(<<"1">>)), Prop(<<"k">>, Num(<<"2">>))>>) }

TemplateBodyTypes == {Undef, Str(RawType), Str(FormType), Str(JsonType)}

\* a request template with the given body and bodyType; an undefined one is no property
templateWith(body, bodyType) ==
  LET c0 == Obj(<<Prop(urlKey, Str(<<"u">>))>>)
      c1 == IF body = Undef THEN c0 ELSE Put(c0, bodyKey, body)
  IN IF bodyType = Undef THEN c1 ELSE Put(c1, bodyTypeKey, bodyType)

InitApplyBodyDirective ==
  /\ fn = "applyBodyDirective"
  /\ args \in { [config |-> templateWith(b, bt), directive |-> d] :
                  b \in TemplateBodies, bt \in TemplateBodyTypes, d \in BodyDirectives }
  /\ ret = <<>>
  /\ fnpc = "ready"
  /\ MainIdle

\* applyBodyDirective(config, directive) on the config the previous call left
ApplyBodyDirectiveCall ==
  /\ fn = "applyBodyDirective"
  /\ Len(ret) < 2
  /\ ret' = Append(ret, applyBodyDirective(IF ret = <<>> THEN args.config ELSE ret[Len(ret)],
                                           args.directive))
  /\ fnpc' = "done"
  /\ UNCHANGED <<fn, args, mainVars>>

SpecApplyBodyDirective == InitApplyBodyDirective /\ [][ApplyBodyDirectiveCall]_vars

(***************************************************************************)
(* C8                                                                      *)
(***************************************************************************)
SameBody(c1, c2) ==
  /\ Get(c1, bodyKey) = Get(c2, bodyKey)
  /\ Get(c1, bodyTypeKey) = Get(c2, bodyTypeKey)

KeySet(x) == {x.o[i].k : i \in DOMAIN x.o}

\* C9: when the body is an object and the directive parses as key/value pairs,
\* the resulting body is an object holding every directive key with the
\* directive's value and every other original key with its original value, and
\* bodyType is left as it was; {totalcount:'1'} with adposid=5 gains adposid:'5'.
C9_ObjectMerge ==
  (fn = "applyBodyDirective" /\ Len(ret) >= 1
     /\ IsObj(Get(args.config, bodyKey))
     /\ parseKeyValuePairs(args.directive) # Null)
    => LET before == Get(args.config, bodyKey)
           overrides == parseKeyValuePairs(args.directive)
           after == Get(ret[1], bodyKey)
       IN /\ IsObj(after)
          /\ KeySet(after) = KeySet(before) \cup KeySet(overrides)
          /\ \A k \in KeySet(overrides) : Get(after, k) = Get(overrides, k)
          /\ \A k \in KeySet(before) \ KeySet(overrides) : Get(after, k) = Get(before, k)
          /\ Get(ret[1], bodyTypeKey) = Get(args.config, bodyTypeKey)
          /\ args.directive = <<"a","d","p","o","s","i","d","=","5">>
               => Get(after, <<"a","d","p","o","s","i","d">>) = Str(<<"5">>)

\* a directive key that the object body already holds with another value
C9_Witness ==
  /\ fn = "applyBodyDirective" /\ Len(ret) >= 1
  /\ Get(args.config, bodyKey) = Obj(<<Prop(<<"a">>, Str(<<"k">>))>>)
  /\ args.directive = <<"a","=","&","k">>
  /\ Get(ret[1], bodyKey) = Obj(<<Prop(<<"a">>, Str(<<>>)), Prop(<<"k">>, Str(<<>>))>>)

(***************************************************************************)
(* Properties of one sendParkingDiscount invocation (specification Spec)   *)
(***************************************************************************)
\* the invocation has loaded a row of the table
Loaded == loadedType \notin {Undef, Null}

\* the stored response template is non-empty and does not parse
ResponseTemplateBad(d) ==
  Truthy(d.responseTemplate) /\ parseResponseTemplate(d.responseTemplate) = Null

\* custom requests are enabled, the stored request template is a non-empty
\* string and parseRequestTemplate returns null for it
RequestTemplateUnparsed(d) ==
  /\ d.useCustomRequest
  /\ IsStr(d.requestTemplate)
  /\ d.requestTemplate.s # <<>>
  /\ parseRequestTemplate(d.requestTemplate.s) = Null

TemplateParseFailedMessages ==
  { RequestTemplateParseFailed(TypeName), ResponseTemplateParseFailed(TypeName) }

ConfigurationErrorMessages ==
  { RequestTemplateParseFailed(TypeName), ResponseTemplateParseFailed(TypeName),
    RequestTemplateEmpty(TypeName), MissingSessionId(TypeName) }

IsConfigurationError(r) == r # Null /\ ~r.success /\ r.message \in ConfigurationErrorMessages

NoLegacyRequest == \A i \in DOMAIN requests : requests[i].site # "legacy"
NoCustomRequest == \A i \in DOMAIN requests : requests[i].site # "custom"

\* C1 as stated: with custom requests enabled and a non-empty request template
\* for which parseRequestTemplate returns null, the call returns success=false
\* with a 'template parse failed' message, issues no request and never attempts
\* the legacy request.
C1_Original ==
  (Loaded /\ RequestTemplateUnparsed(loadedType)) =>
    /\ pc = "returned"
    /\ ~returnValue.success
    /\ returnValue.message \in TemplateParseFailedMessages
    /\ requests = <<>>

\* C1 amended: in that case the call returns success=false, issues no request
\* and never attempts the legacy request; its message is 'Custom response
\* template parse failed' when the response template is non-empty and does not
\* parse, else 'Custom request enabled but template is empty' when the request
\* template is only white space, else 'Custom request template parse failed'.
C1_ParseFailureRefused ==
  (Loaded /\ RequestTemplateUnparsed(loadedType)) =>
    /\ pc = "returned"
    /\ ~returnValue.success
    /\ returnValue.message =
         (IF ResponseTemplateBad(loadedType) THEN ResponseTemplateParseFailed(loadedType.name)
          ELSE IF Trim(loadedType.requestTemplate.s) = <<>>
          THEN RequestTemplateEmpty(loadedType.name)
          ELSE RequestTemplateParseFailed(loadedType.name))
    /\ requests = <<>>
    /\ errorLog = <<>>

C1_Witness ==
  /\ Loaded
  /\ RequestTemplateUnparsed(loadedType)
  /\ Truthy(loadedType.jsessionid)
  /\ pc = "returned"
  /\ returnValue = Failure(RequestTemplateParseFailed(TypeName))
  /\ requests = <<>>

\* C2: sendParkingDiscount never propagates an exception: whatever the lookup,
\* the fetch, the reading of the body and the evaluation of the response do, a
\* finished call has returned a result whose success field is a boolean.
C2_NeverThrows ==
  /\ pc # "thrown"
  /\ pc = "returned" => (returnValue # Null /\ returnValue.success \in BOOLEAN)
  /\ errorLog # <<>> => (pc = "returned" /\ returnValue = Failure(RequestSystemFailed))

C2_Witness ==
  /\ pc = "returned"
  /\ errorLog = <<"evaluate">>
  /\ Len(requests) = 1
  /\ returnValue = Failure(RequestSystemFailed)

\* the configuration checks of lines 477-509 and 618-623 all passed
ChecksPassed ==
  /\ Loaded
  /\ ~ResponseTemplateBad(loadedType)
  /\ IF loadedType.useCustomRequest
     THEN /\ IsStr(loadedType.requestTemplate)
          /\ parseRequestTemplate(loadedType.requestTemplate.s) # Null
     ELSE Truthy(loadedType.jsessionid)

\* C3 as stated: an invocation issues at most one request: none when it ends in
\* a configuration error, exactly one once the configuration checks pass, and a
\* request that throws or fails is never issued again.
C3_Original ==
  /\ Len(requests) <= 1
  /\ (pc = "returned" /\ IsConfigurationError(returnValue)) => requests = <<>>
  /\ ChecksPassed => Len(requests) = 1

\* C4: in custom mode, when the template's method upper-cases to GET, the
\* request carries no body, whatever body, bodyType, template-level #body
\* directive or note-level #body directive there is.
C4_GetHasNoBody ==
  \A i \in DOMAIN requests :
    LET method == Get(parseRequestTemplate(loadedType.requestTemplate.s), methodKey) IN
    (requests[i].site = "custom" /\ IsStr(method) /\ toUpperCase(method.s) = GetMethod)
      => requests[i].body = Undef

C4_Witness ==
  /\ pc = "fetching"
  /\ loadedType.requestTemplate = Str(<<"{","\"","u","r","l","\"",":","\"","h",":","{","{","p","l","a","t","e","}","}","\"",",","\"","m","e","t","h","o","d","\"",":","\"","g","e","t","\"",",","\"","b","o","d","y","\"",":","{","\"","a","\"",":","\"","1","\"","}","}">>)
  /\ call.contextOverrides = Obj(<<Prop(noteKey, Str(<<"#","b","o","d","y","{","a","=","2","}">>))>>)
  /\ requests[1].method = GetMethod
  /\ requests[1].url = <<"h",":","A","1">>
  /\ requests[1].body = Undef

\* the operating mode the configuration fixes
Mode(d) ==
  IF d.useCustomRequest /\ IsStr(d.requestTemplate) /\ Trim(d.requestTemplate.s) # <<>>
  THEN "custom"
  ELSE IF ~d.useCustomRequest THEN "legacy" ELSE "none"

\* C5: a submission in Custom mode (useCustomRequest and a request template
\* that is non-empty once trimmed) never issues the legacy request, one in
\* Legacy mode (useCustomRequest false) never issues a custom request, and a
\* Legacy submission without jsessionid ends in a configuration error without
\* any request.
C5_ModeFixed ==
  Loaded =>
    /\ Mode(loadedType) = "custom" => NoLegacyRequest
    /\ Mode(loadedType) = "legacy" => NoCustomRequest
    /\ (Mode(loadedType) = "legacy" /\ ~Truthy(loadedType.jsessionid)) =>
         (pc = "returned" /\ IsConfigurationError(returnValue) /\ requests = <<>>)

C5_Witness ==
  /\ Loaded
  /\ Mode(loadedType) = "legacy"
  /\ loadedType.jsessionid = Str(<<>>)
  /\ IsStr(loadedType.requestTemplate)
  /\ pc = "returned"
  /\ returnValue = Failure(MissingSessionId(TypeName))
  /\ requests = <<>>

(***************************************************************************)
(* parseRequestTemplate applied to JSON and snippet templates              *)
(***************************************************************************)
RECURSIVE Join(_, _)
Join(parts, sep) ==
  IF parts = <<>> THEN <<>>
  ELSE IF Len(parts) = 1 THEN Head(parts)
  ELSE Head(parts) \o sep \o Join(Tail(parts), sep)

\* the fields a template text gives: each is absent (null) or the text of its value
UrlTexts == { Null, Str(<<"\"","\"">>), Str(<<"\"","h",":","x","\"">>) }
HeadersTexts == { Null, Str(<<"{","\"","A","\"",":","\"","1","\"","}">>), Str(<<"{","\"","a","\"",":","\"","1","\"","}">>) }
BodyTexts == { Null, Str(<<"\"","k","=","1","\"">>) }
TemplateDirectives == { <<>>, <<"#","h","e","a","d","e","r","{","a","=","2","}">>, <<"#","h","e","a","d","e","r","{","A","=","2","}">>, <<"#","b","o","d","y","{","k","=","2","}">> }

Present(fields) == SelectSeq(fields, LAMBDA f : f.v # Null)

\* {"url":...,"headers":...,"body":...}
jsonTemplate(url, headers, body) ==
  LET fields == Present(<<Prop(urlKey, url), Prop(headersKey, headers), Prop(bodyKey, body)>>)
  IN <<"{">> \o Join([i \in DOMAIN fields |->
                        <<Quote>> \o fields[i].k \o <<Quote, ":">> \o fields[i].v.s], <<",">>)
       \o <<"}">>

\* const url = ...; const headers = ...; const body = ...;
snippetTemplate(url, headers, body) ==
  LET fields == Present(<<Prop(urlKey, url), Prop(headersKey, headers), Prop(bodyKey, body)>>)
  IN Join([i \in DOMAIN fields |->
             ConstWord \o <<" ">> \o fields[i].k \o <<" ", "=", " ">> \o fields[i].v.s \o <<";">>],
          <<" ">>)

TemplateTexts ==
  { jsonTemplate(u, h, b) \o d :
      u \in UrlTexts, h \in HeadersTexts, b \in BodyTexts, d \in TemplateDirectives }
    \cup { snippetTemplate(u, h, b) \o d :
             u \in UrlTexts, h \in HeadersTexts, b \in BodyTexts, d \in TemplateDirectives }

InitParseRequestTemplate ==
  /\ fn = "parseRequestTemplate"
  /\ args \in [raw : TemplateTexts]
  /\ ret = <<>>
  /\ fnpc = "ready"
  /\ MainIdle

ParseRequestTemplateCall ==
  /\ fn = "parseRequestTemplate"
  /\ fnpc = "ready"
  /\ ret' = parseRequestTemplate(args.raw)
  /\ fnpc' = "done"
  /\ UNCHANGED <<fn, args, mainVars>>

SpecParseRequestTemplate == InitParseRequestTemplate /\ [][ParseRequestTemplateCall]_vars

Parsed == fn = "parseRequestTemplate" /\ fnpc = "done" /\ ret # Null

\* C6 as stated: every non-null result of parseRequestTemplate has a non-empty
\* url, for JSON-object templates and for snippet templates alike.
C6_Original == Parsed => Truthy(Get(ret, urlKey))

\* no two keys of the headers are equal ignoring letter case
CaseUnique(headers) ==
  IsObj(headers) =>
    \A i, j \in DOMAIN headers.o :
      toLowerCase(headers.o[i].k) = toLowerCase(headers.o[j].k) => i = j

\* the value the headers hold under a name, ignoring letter case
HeaderValues(headers, name) ==
  { headers.o[i].v : i \in {j \in DOMAIN headers.o :
                               toLowerCase(headers.o[j].k) = toLowerCase(name)} }

\* C10 as stated, for the template-level directive: when the template's own
\* headers have no two keys equal ignoring case, the headers with the #header
\* directive applied have none either, and hold the directive's value.
C10_Original ==
  LET directive == extractDirective(args.raw, HeaderName)
      overrides == parseHeaderDirective(directive.s)
      own == Get(parseRequestTemplate(stripDirectives(args.raw)), headersKey)
      merged == Get(ret, headersKey)
  IN (Parsed /\ Truthy(directive) /\ Truthy(overrides) /\ CaseUnique(own)) =>
       /\ CaseUnique(merged)
       /\ \A i \in DOMAIN overrides.o :
            HeaderValues(merged, overrides.o[i].k) = {overrides.o[i].v}
(***************************************************************************)
(* The custom branch of sendParkingDiscount applied to one discount type   *)
(* and one submission, up to its fetch call                                *)
(***************************************************************************)
\* {"url":"h:x","method":...,"headers":...,"body":...,"bodyType":...}
requestTemplateText(method, headers, body, bodyType) ==
  LET fields == Present(<<Prop(urlKey, Str(<<"\"","h",":","x","\"">>)), Prop(methodKey, method),
                          Prop(headersKey, headers), Prop(bodyKey, body),
                          Prop(bodyTypeKey, bodyType)>>)
  IN <<"{">> \o Join([i \in DOMAIN fields |->
                        <<Quote>> \o fields[i].k \o <<Quote, ":">> \o fields[i].v.s], <<",">>)
       \o <<"}">>

BranchMethodTexts == { Null, Str(<<"\"","g","e","t","\"">>) }
BranchHeadersTexts ==
  { Null, Str(<<"{","\"","A","\"",":","\"","0","\"","}">>), Str(<<"{","\"","c","o","n","t","e","n","t","-","t","y","p","e","\"",":","\"","t","\"","}">>),
    Str(<<"{","\"","c","o","o","k","i","e","\"",":","\"","c","\"",",","\"","R","e","f","e","r","e","r","\"",":","\"","{","{","p","l","a","t","e","}","}","\"","}">>) }
BranchBodyTexts ==
  { Null, Str(<<"\"","a","=","0","\"">>), Str(<<"\"","{","{","p","l","a","t","e","}","}","\"">>), Str(<<"{","\"","a","\"",":","\"","0","\"",",","\"","b","\"",":","n","u","l","l","}">>) }
BranchBodyTypeTexts == { Null, Str(<<"\"","j","s","o","n","\"">>), Str(<<"\"","f","o","r","m","\"">>), Str(<<"\"","r","a","w","\"">>) }
BranchDirectives == { <<>>, <<"#","h","e","a","d","e","r","{","a","=","1","}">>, <<"#","b","o","d","y","{","a","=","1","}">> }

BranchTemplates ==
  { Str(requestTemplateText(m, h, b, t) \o d) :
      m \in BranchMethodTexts, h \in BranchHeadersTexts, b \in BranchBodyTexts,
      t \in BranchBodyTypeTexts, d \in BranchDirectives }

BranchNotes ==
  { Undef,
    Obj(<<Prop(noteKey, Str(<<"#","h","e","a","d","e","r","{","A","=","2","}">>))>>),
    Obj(<<Prop(noteKey, Str(<<"#","h","e","a","d","e","r","{","a","=","2",";","C","o","n","t","e","n","t","-","T","y","p","e","=","n","}">>))>>),
    Obj(<<Prop(noteKey, Str(<<"#","b","o","d","y","{","a","=","2","}">>))>>),
    Obj(<<Prop(noteKey, Str(<<"#","h","e","a","d","e","r","{","C","O","O","K","I","E","=","k",";","r","e","f","e","r","e","r","=","q","}">>))>>) }

BranchDiscountTypes ==
  { DiscountType(TRUE, q, Null, j, f, Null) :
      q \in BranchTemplates, j \in {Null, Str(<<"s","1">>)}, f \in RefererUrls }

InitCustomBranch ==
  /\ fn = "customBranch"
  /\ args \in [discountType : BranchDiscountTypes, contextOverrides : BranchNotes]
  /\ ret = <<>>
  /\ fnpc = "ready"
  /\ MainIdle

CustomBranchCall ==
  /\ fn = "customBranch"
  /\ fnpc = "ready"
  /\ ret' = customBranch(args.discountType, <<"A","1">>, TypeCode, args.contextOverrides)
  /\ fnpc' = "done"
  /\ UNCHANGED <<fn, args, mainVars>>

SpecCustomBranch == InitCustomBranch /\ [][CustomBranchCall]_vars

\* the custom branch has reached its fetch call
Fetching == fn = "customBranch" /\ fnpc = "done" /\ ret.kind = "fetch"
\* the note of a submission as text, empty when there is none
NoteText(contextOverrides) ==
  IF IsStr(PropOf(contextOverrides, noteKey)) THEN PropOf(contextOverrides, noteKey).s
  ELSE <<>>

\* the headers a directive text sets, or null
headersOfDirective(d) == IF Truthy(d) THEN parseHeaderDirective(d.s) ELSE Null
\* the body keys a directive text sets, or null
pairsOfDirective(d) == IF Truthy(d) THEN parseKeyValuePairs(d.s) ELSE Null

\* the headers the #header directive of a text sets, or null
DirectiveHeaders(text) == headersOfDirective(extractDirective(text, HeaderName))
\* the body keys the #body directive of a text sets, or null
DirectivePairs(text) == pairsOfDirective(extractDirective(text, BodyName))

\* every header name both directives set has the note's value and no other
NoteWinsHeaders(templateSet, noteSet, headers) ==
  (IsObj(templateSet) /\ IsObj(noteSet)) =>
    \A i \in DOMAIN templateSet.o, j \in DOMAIN noteSet.o :
      toLowerCase(templateSet.o[i].k) = toLowerCase(noteSet.o[j].k)
        => HeaderValues(headers, noteSet.o[j].k) = {noteSet.o[j].v}

\* every body key both directives set has the note's value in the body sent
NoteWinsBody(templateSet, noteSet, body) ==
  (IsObj(templateSet) /\ IsObj(noteSet) /\ IsStr(body)) =>
    \A i \in DOMAIN templateSet.o, j \in DOMAIN noteSet.o :
      templateSet.o[i].k = noteSet.o[j].k
        => PropOf(parseKeyValuePairs(body.s), noteSet.o[j].k) = noteSet.o[j].v

\* C11, the body part: a body key set by a template-level and by a note-level
\* #body directive has the note-level value in the body of the request.
C11_BodyNoteWins ==
  Fetching =>
    NoteWinsBody(DirectivePairs(args.discountType.requestTemplate.s),
                 DirectivePairs(NoteText(args.contextOverrides)), ret.request.body)

\* C11 as stated: template-level directives are applied before note-level
\* directives and the note-level ones win: a header name (names compared
\* ignoring letter case) or a body key set by a template-level and by a
\* note-level directive of the same kind has the note-level value, and only
\* that value, in the outbound request.
C11_Original ==
  Fetching =>
    /\ NoteWinsHeaders(DirectiveHeaders(args.discountType.requestTemplate.s),
                       DirectiveHeaders(NoteText(args.contextOverrides)), ret.request.headers)
    /\ NoteWinsBody(DirectivePairs(args.discountType.requestTemplate.s),
                    DirectivePairs(NoteText(args.contextOverrides)), ret.request.body)
(***************************************************************************)
(* The template context of one submission                                  *)
(***************************************************************************)
ContextNotes ==
  { Undef, Str(<<"p","l","a","t","e","=","Z">>), Str(<<"k","=","v",";","n","a","m","e","=","N">>), Str(<<"{","\"","p","h","o","n","e","\"",":","5",",","\"","x","\"",":","n","u","l","l","}">>),
    Str(<<"#","b","o","d","y","{","a","=","2","}"," ","p","l","a","t","e","=","Y","&","k","=","w">>) }
ContextExtras ==
  { Undef, Obj(<<Prop(plateKey, Str(<<"E">>))>>),
    Obj(<<Prop(<<"k">>, Str(<<"e">>)), Prop(noteKey, Str(<<"m">>)), Prop(jsessionidKey, Str(<<"s","2">>))>>) }
ContextNames == { Undef, Str(<<"L","i">>) }
ContextPhones == { Undef, Str(<<>>), Str(<<"1","3">>) }

ContextSubmissions ==
  { Obj(<<Prop(noteKey, n), Prop(nameKey, m), Prop(phoneKey, p), Prop(extraKey, e)>>) :
      n \in ContextNotes, m \in ContextNames, p \in ContextPhones, e \in ContextExtras }

ContextDiscountTypes ==
  { DiscountType(TRUE, Null, Null, j, f, Null) : j \in SessionIds, f \in RefererUrls }

InitTemplateContext ==
  /\ fn = "templateContext"
  /\ args \in [discountType : ContextDiscountTypes, contextOverrides : ContextSubmissions]
  /\ ret = <<>>
  /\ fnpc = "ready"
  /\ MainIdle

TemplateContextCall ==
  /\ fn = "templateContext"
  /\ fnpc = "ready"
  /\ ret' = templateContext(args.discountType, <<"A","1">>, TypeCode, args.contextOverrides)
  /\ fnpc' = "done"
  /\ UNCHANGED <<fn, args, mainVars>>

SpecTemplateContext == InitTemplateContext /\ [][TemplateContextCall]_vars

\* x || undefined
OrUndefined(x) == IF Truthy(x) THEN x ELSE Undef

\* the base value of a key: plate, discountType, jsessionid, referer, scanUrl,
\* note (the note without its directives, trimmed), name and phone
BaseValue(k, discountType, contextOverrides) ==
  CASE k = plateKey -> Str(<<"A","1">>)
    [] k = discountTypeKey -> Str(TypeCode)
    [] k = jsessionidKey -> OrUndefined(discountType.jsessionid)
    [] k = refererKey -> OrUndefined(discountType.refererUrl)
    [] k = scanUrlKey -> OrUndefined(discountType.scanUrl)
    [] k = noteKey -> OrUndefined(cleanNote(PropOf(contextOverrides, noteKey)))
    [] k = nameKey -> OrUndefined(PropOf(contextOverrides, nameKey))
    [] k = phoneKey -> OrUndefined(PropOf(contextOverrides, phoneKey))
    [] OTHER -> Undef

\* the value of a key under base < note variables < extra
LayeredValue(k, base, noteVars, extra) ==
  IF IsObj(extra) /\ HasKey(extra, k) THEN Get(extra, k)
  ELSE IF HasKey(noteVars, k) THEN Get(noteVars, k)
  ELSE base

ContextKeys ==
  { plateKey, discountTypeKey, jsessionidKey, refererKey, scanUrlKey, noteKey, nameKey,
    phoneKey, <<"k">>, <<"x">> }

\* C12: the template context is layered base < note variables < caller extra:
\* for every key, the context value is the extra's when extra has the key, else
\* the variable the cleaned note defines, else the base value; and the context
\* has no other keys.
C12_Layered ==
  (fn = "templateContext" /\ fnpc = "done") =>
    /\ \A k \in ContextKeys :
         Get(ret, k) =
           LayeredValue(k, BaseValue(k, args.discountType, args.contextOverrides),
                        parseNoteVariables(cleanNote(PropOf(args.contextOverrides, noteKey))),
                        PropOf(args.contextOverrides, extraKey))
    /\ \A i \in DOMAIN ret.o : ret.o[i].k \in ContextKeys

\* a note variable shadows the base plate and the base name, and an extra key
\* shadows a note variable and the base note
C12_Witness ==
  /\ fn = "templateContext" /\ fnpc = "done"
  /\ PropOf(args.contextOverrides, noteKey) = Str(<<"k","=","v",";","n","a","m","e","=","N">>)
  /\ PropOf(args.contextOverrides, nameKey) = Str(<<"L","i">>)
  /\ IsObj(PropOf(args.contextOverrides, extraKey))
  /\ HasKey(PropOf(args.contextOverrides, extraKey), <<"k">>)
  /\ Get(ret, nameKey) = Str(<<"N">>)
  /\ Get(ret, <<"k">>) = Str(<<"e">>)
  /\ Get(ret, noteKey) = Str(<<"m">>)
  /\ Get(ret, plateKey) = Str(<<"A","1">>)
(***************************************************************************)
(* parseRequestTemplate applied to templates with a body and a body type   *)
(***************************************************************************)
\* {"k":v,...} of the fields that are present
jsonTemplateOf(fields) ==
  <<"{">> \o Join([i \in DOMAIN Present(fields) |->
                     <<Quote>> \o Present(fields)[i].k \o <<Quote, ":">> \o Present(fields)[i].v.s],
                  <<",">>)
    \o <<"}">>

\* const k = v; ... of the fields that are present
snippetTemplateOf(fields) ==
  Join([i \in DOMAIN Present(fields) |->
          ConstWord \o <<" ">> \o Present(fields)[i].k \o <<" ", "=", " ">>
            \o Present(fields)[i].v.s \o <<";">>],
       <<" ">>)

TypedUrlTexts == { Str(<<"\"","h",":","x","\"">>), Str(<<"\"","h",":","y","\"">>) }
TypedBodies == { Str(<<"k","=","1">>), Str(<<"k">>), Obj(<<Prop(<<"k">>, Str(<<"1">>))>>) }
TypedBodyTypes == { Null, Str(<<"j","s","o","n">>), Str(<<"J","S","O","N">>), Str(<<"F","o","r","m">>), Str(<<"x","m","l">>), Str(<<" ","r","a","w"," ">>) }

\* a value as the text of a template gives it
ValueText(x) ==
  IF x = Null THEN Null ELSE Str(IF IsStr(x) THEN <<Quote>> \o x.s \o <<Quote>> ELSE JSONstringify(x))

TypedFields(url, headers, body, bodyType) ==
  << Prop(urlKey, url), Prop(headersKey, headers), Prop(bodyKey, ValueText(body)),
     Prop(bodyTypeKey, ValueText(bodyType)) >>

TypedTemplates ==
  { [raw |-> jsonTemplateOf(TypedFields(u, h, b, t)), form |-> "json", body |-> b, bodyType |-> t] :
      u \in TypedUrlTexts, h \in HeadersTexts, b \in TypedBodies, t \in TypedBodyTypes }
    \cup
  { [raw |-> snippetTemplateOf(TypedFields(u, h, b, t)), form |-> "snippet", body |-> b, bodyType |-> t] :
      u \in TypedUrlTexts, h \in HeadersTexts, b \in TypedBodies, t \in TypedBodyTypes }

InitBodyType ==
  /\ fn = "parseRequestTemplate"
  /\ args \in TypedTemplates
  /\ ret = <<>>
  /\ fnpc = "ready"
  /\ MainIdle

SpecBodyType == InitBodyType /\ [][ParseRequestTemplateCall]_vars

BodyTypeNames == { RawType, FormType, JsonType }

\* the body type a body implies
InferredType(body) ==
  IF IsObj(body) THEN Str(FormType)
  ELSE IF Includes(body.s, <<"=">>) THEN Str(FormType)
  ELSE Str(RawType)

\* the body type of C13: the explicit one in lower case when it names a body
\* type, else the inferred one
ResolvedType(explicit, body) ==
  IF IsStr(explicit) /\ toLowerCase(explicit.s) \in BodyTypeNames
  THEN Str(toLowerCase(explicit.s))
  ELSE InferredType(body)

\* the same with the explicit value trimmed first
ResolvedTypeTrimmed(explicit, body) ==
  IF IsStr(explicit) /\ toLowerCase(Trim(explicit.s)) \in BodyTypeNames
  THEN Str(toLowerCase(Trim(explicit.s)))
  ELSE InferredType(body)

\* C13 as stated: for every template parseRequestTemplate accepts with a body,
\* in JSON-object form or in snippet form, the resulting bodyType is the
\* explicit value in lower case when it is raw, form or json ignoring case,
\* else form for an object body, form for a string body with "=" and raw for
\* any other string body.
C13_Original ==
  Parsed => Get(ret, bodyTypeKey) = ResolvedType(args.bodyType, args.body)

\* for snippet templates the body type is resolved so, the explicit value
\* trimmed first
C13_SnippetResolved ==
  (Parsed /\ args.form = "snippet")
    => Get(ret, bodyTypeKey) = ResolvedTypeTrimmed(args.bodyType, args.body)

\* for JSON templates the body type is the one written, or none
C13_JsonAsWritten ==
  (Parsed /\ args.form = "json")
    => Get(ret, bodyTypeKey) = (IF args.bodyType = Null THEN Undef ELSE args.bodyType)
(***************************************************************************)
(* Properties of the request the custom branch builds (SpecCustomBranch)   *)
(***************************************************************************)
\* the template with the template-level and the note-level directives applied
BranchConfig ==
  effectiveConfig(parseRequestTemplate(args.discountType.requestTemplate.s),
                  args.contextOverrides)

\* the template context of the submission
BranchContext == templateContext(args.discountType, <<"A","1">>, TypeCode, args.contextOverrides)

\* a request with a method other than GET is about to be sent
FetchingNonGet == Fetching /\ ret.request.method # GetMethod

\* the body with its tokens substituted, undefined when there is none
Substituted(body, context) ==
  IF body = Undef THEN Undef ELSE replaceTemplates(body, context)

\* what C14 says of the body sent, substituted the body with its tokens
\* substituted: JSON.stringify for json whatever the shape, URL-encoded pairs
\* for form and the string itself for raw
SerialisedByType(sent, substituted, type) ==
  /\ type = Str(JsonType) => sent = Str(JSONstringify(substituted))
  /\ (type = Str(FormType) /\ IsObj(substituted)) => sent = Str(formEncoded(substituted))
  /\ (type \in {Str(FormType), Str(RawType)} /\ IsStr(substituted)) => sent = substituted

\* the body sent by shape: a string as it is, an object as JSON when the type
\* is json and as URL-encoded pairs otherwise, nothing when there is no body
SerialisedByShape(substituted, type) ==
  IF substituted = Undef THEN Undef
  ELSE IF IsStr(substituted) THEN substituted
  ELSE IF type = Str(JsonType) THEN Str(JSONstringify(substituted))
  ELSE Str(formEncoded(substituted))

bodyAsClaimed(sent, config, context) ==
  Get(config, bodyKey) # Undef
    => SerialisedByType(sent, Substituted(Get(config, bodyKey), context),
                        resolvedBodyType(config))

bodyAsBuilt(config, context) ==
  SerialisedByShape(Substituted(Get(config, bodyKey), context), resolvedBodyType(config))

\* C14 as stated: for a non-GET custom request the body sent is determined by
\* bodyType for every body shape, string or object: JSON.stringify of the
\* token-substituted body when json, URL-encoded key=value pairs when form
\* (null values as the empty string), the token-substituted string unchanged
\* when raw.
C14_Original ==
  FetchingNonGet => bodyAsClaimed(ret.request.body, BranchConfig, BranchContext)

\* C14 amended: for a non-GET custom request a string body is sent as the
\* token-substituted string whatever bodyType is; an object body is sent as
\* JSON.stringify of the substituted object when bodyType is json and as
\* URL-encoded key=value pairs (null values as the empty string) for any other
\* bodyType; without a body nothing is sent.
C14_BodyByShape ==
  FetchingNonGet => ret.request.body = bodyAsBuilt(BranchConfig, BranchContext)

\* a string body of type json goes out unquoted, with its token substituted
C14_Witness ==
  /\ FetchingNonGet
  /\ args.discountType.requestTemplate = Str(<<"{","\"","u","r","l","\"",":","\"","h",":","x","\"",",","\"","b","o","d","y","\"",":","\"","{","{","p","l","a","t","e","}","}","\"",",","\"","b","o","d","y","T","y","p","e","\"",":","\"","j","s","o","n","\"","}">>)
  /\ args.contextOverrides = Undef
  /\ ret.request.body = Str(<<"A","1">>)
\* the positions of the headers with a name, ignoring letter case
HeaderPositions(headers, name) ==
  { i \in DOMAIN headers.o : toLowerCase(headers.o[i].k) = toLowerCase(name) }

\* the values the template and the directives give a header, tokens substituted
SuppliedValues(headers, name, context) ==
  { Str(applyTemplate(String(v), context)) : v \in HeaderValues(headers, name) }

\* the default content type of a body type
DefaultContentType(type) ==
  IF type = Str(JsonType) THEN {Str(JsonContentType)}
  ELSE IF type = Str(FormType) THEN {Str(FormContentType)}
  ELSE {}

\* supplied the headers of the template with all directives applied
contentTypeKept(request, config, context, supplied) ==
  IF hasHeader(supplied, ContentTypeName)
  THEN /\ HeaderValues(request.headers, ContentTypeName)
            = SuppliedValues(supplied, ContentTypeName, context)
       /\ Cardinality(HeaderPositions(request.headers, ContentTypeName))
            = Cardinality(HeaderPositions(supplied, ContentTypeName))
  ELSE /\ HeaderValues(request.headers, ContentTypeName)
            = (IF request.method = GetMethod THEN {}
               ELSE DefaultContentType(resolvedBodyType(config)))
       /\ Cardinality(HeaderPositions(request.headers, ContentTypeName)) <= 1

contentTypeOf(request, config, context) ==
  contentTypeKept(request, config, context, OrElse(Get(config, headersKey), Obj(<<>>)))

\* C15: a default Content-Type is added to a custom request only when the
\* template and the directives supply no Content-Type header in any letter
\* case: for a request other than GET, application/json when the body type is
\* json, application/x-www-form-urlencoded; charset=UTF-8 when it is form and
\* none otherwise; a GET request gets none; a supplied Content-Type is sent
\* with the value supplied, never overwritten and never doubled.
C15_ContentTypeDefault ==
  Fetching => contentTypeOf(ret.request, BranchConfig, BranchContext)

\* the note supplies Content-Type for a json body: the note's value is sent
C15_Witness ==
  /\ FetchingNonGet
  /\ args.discountType.requestTemplate = Str(<<"{","\"","u","r","l","\"",":","\"","h",":","x","\"",",","\"","b","o","d","y","\"",":","{","\"","a","\"",":","\"","0","\"",",","\"","b","\"",":","n","u","l","l","}",",","\"","b","o","d","y","T","y","p","e","\"",":","\"","j","s","o","n","\"","}">>)
  /\ NoteText(args.contextOverrides) = <<"#","h","e","a","d","e","r","{","a","=","2",";","C","o","n","t","e","n","t","-","T","y","p","e","=","n","}">>
  /\ HeaderValues(ret.request.headers, ContentTypeName) = {Str(<<"n">>)}
  /\ ret.request.body = Str(<<"{","\"","a","\"",":","\"","0","\"",",","\"","b","\"",":","n","u","l","l","}">>)
\* a header the code injects: when supplied, the request has the supplied
\* values at as many places; when not, it has the injected value once if the
\* context has one, and no such header if not
injectedOrKept(request, supplied, name, context, injected) ==
  IF hasHeader(supplied, name)
  THEN /\ HeaderValues(request.headers, name) = SuppliedValues(supplied, name, context)
       /\ Cardinality(HeaderPositions(request.headers, name))
            = Cardinality(HeaderPositions(supplied, name))
  ELSE /\ HeaderValues(request.headers, name) = injected
       /\ Cardinality(HeaderPositions(request.headers, name)) = Cardinality(injected)

\* Cookie: JSESSIONID=<context.jsessionid> when the context has a jsessionid
SessionCookieOf(context) ==
  IF Truthy(Get(context, jsessionidKey))
  THEN {Str(SessionCookie \o String(Get(context, jsessionidKey)))}
  ELSE {}

\* Referer: <context.referer> when the context has a referer
RefererOf(context) ==
  IF Truthy(Get(context, refererKey)) THEN {Get(context, refererKey)} ELSE {}

cookieAndReferer(request, supplied, context) ==
  /\ injectedOrKept(request, supplied, CookieName, context, SessionCookieOf(context))
  /\ injectedOrKept(request, supplied, RefererName, context, RefererOf(context))

\* C16: in custom mode a Cookie: JSESSIONID=<jsessionid> header is injected
\* exactly when the headers of the template with all directives applied hold
\* no cookie header in any letter case and context.jsessionid is set, and a
\* Referer header exactly when they hold no referer header and context.referer
\* is set; a supplied Cookie or Referer is sent as supplied, never overwritten
\* and never doubled.
C16_CookieAndReferer ==
  Fetching =>
    cookieAndReferer(ret.request, OrElse(Get(BranchConfig, headersKey), Obj(<<>>)),
                     BranchContext)

\* the note supplies COOKIE and referer while the discount type has a session
\* id and a referer: the note's values are the ones sent
C16_Witness ==
  /\ Fetching
  /\ NoteText(args.contextOverrides) = <<"#","h","e","a","d","e","r","{","C","O","O","K","I","E","=","k",";","r","e","f","e","r","e","r","=","q","}">>
  /\ args.discountType.jsessionid = Str(<<"s","1">>)
  /\ Truthy(args.discountType.refererUrl)
  /\ args.discountType.requestTemplate = Str(<<"{","\"","u","r","l","\"",":","\"","h",":","x","\"",",","\"","h","e","a","d","e","r","s","\"",":","{","\"","A","\"",":","\"","0","\"","}","}">>)
  /\ HeaderValues(ret.request.headers, CookieName) = {Str(<<"k">>)}
  /\ HeaderValues(ret.request.headers, RefererName) = {Str(<<"q">>)}

\* the session cookie and the referer are injected
C16_Injected ==
  /\ Fetching
  /\ HeaderValues(ret.request.headers, CookieName) = {Str(<<"J","S","E","S","S","I","O","N","I","D","=","s","1">>)}
  /\ HeaderValues(ret.request.headers, RefererName) = {Str(<<"h",":","r">>)}
(***************************************************************************)
(* Properties of the result made from the response (specification Spec)    *)
(***************************************************************************)
\* the custom request was sent and its response is being read
ReadingCustom == pc = "reading" /\ requests[Len(requests)].site = "custom"
\* the legacy request was sent and its response is being read
ReadingLegacy == pc = "reading" /\ requests[Len(requests)].site = "legacy"

\* the response rule of the discount type, or null
ResponseRule(d) == parseResponseTemplate(d.responseTemplate)

\* the discount type has a response rule in JSON mode
JsonRule(d) == Truthy(d.responseTemplate) /\ responseType(ResponseRule(d)) = Str(JsonType)

\* no lenient strategy reads the text as JSON
Unparsable(responseText) == tryParseJsonFromText(responseText) = Null

\* C17: when a response rule in JSON mode governs the evaluation and no lenient
\* strategy (direct, JSONP wrapper, first "{" to last "}") reads the response
\* text as JSON, the submission returns success=false with the fixed message
\* 'Invalid JSON response' and rawResponse equal to the text received.
C17_InvalidJson ==
  [][\A t \in ResponseTexts :
       (ReadingCustom /\ JsonRule(loadedType) /\ Unparsable(t) /\ TextResolves(t))
         => /\ pc' = "returned"
            /\ returnValue' = Result(FALSE, InvalidJsonResponse, Str(t), Undef, Undef)]_vars

C17_Witness ==
  /\ pc = "returned"
  /\ Len(requests) = 1
  /\ requests[1].site = "custom"
  /\ JsonRule(loadedType)
  /\ returnValue = Result(FALSE, InvalidJsonResponse, Str(<<"x">>), Undef, Undef)
\* the response has no info.discountcharge
NoDiscountInfo(responseText) ==
  extractDiscountInfo(tryParseJsonFromText(responseText)) = Null

\* no response rule governs the evaluation: legacy mode, or custom mode without
\* a response template
ReadingUnruled == ReadingLegacy \/ (ReadingCustom /\ ~Truthy(loadedType.responseTemplate))

\* info.errmsg of the response, undefined when there is none
ErrmsgOf(json) == PropOf(PropOf(json, infoKey), errmsgKey)

\* the message of a legacy failure: info.errmsg when it is set and not "ok"
LegacyFailureMessage(errmsg) ==
  IF Truthy(errmsg) /\ errmsg # Str(<<"o","k">>) THEN Str(String(errmsg)) ELSE LegacyRequestFailed

\* the result without a rule and without discount fields, by mode
UnruledResult(site, ok, responseText) ==
  IF site = "custom"
  THEN Result(ok, IF ok THEN Undef ELSE RequestFailed, Str(responseText), Undef, Undef)
  ELSE Result(FALSE, LegacyFailureMessage(ErrmsgOf(tryParseJsonFromText(responseText))),
              Str(responseText), Undef, Undef)

\* C18 as stated: whenever no response rule governs the evaluation (Legacy
\* mode, or Custom mode without a responseTemplate) and the response has no
\* info.discountcharge, the success of the submission equals whether the HTTP
\* status is 2xx, and there is no discountInfo.
C18_Original ==
  [][\A t \in ResponseTexts :
       (ReadingUnruled /\ NoDiscountInfo(t) /\ TextResolves(t))
         => /\ pc' = "returned"
            /\ returnValue'.success = response.ok
            /\ returnValue'.discountInfo = Undef]_vars

\* C18 amended: without a response rule and without info.discountcharge, a
\* Custom submission succeeds exactly when the HTTP status is 2xx (message
\* 'Request failed' when it is not), and a Legacy submission fails whatever
\* the HTTP status is, with info.errmsg as its message when that is set and
\* not 'ok' and 'Parking discount request failed' otherwise; both carry the
\* response text and no discountInfo.
C18_FallbackByMode ==
  [][\A t \in ResponseTexts :
       (ReadingUnruled /\ NoDiscountInfo(t) /\ TextResolves(t))
         => /\ pc' = "returned"
            /\ returnValue' = UnruledResult(requests[Len(requests)].site, response.ok, t)]_vars

\* a legacy submission answered 2xx with an errmsg fails with that message
C18_Witness ==
  /\ pc = "returned"
  /\ Len(requests) = 1
  /\ requests[1].site = "legacy"
  /\ response = [ok |-> TRUE]
  /\ returnValue = Result(FALSE, Str(<<"n","o">>), Str(<<"{","\"","i","n","f","o","\"",":","{","\"","e","r","r","m","s","g","\"",":","\"","n","o","\"","}","}">>), Undef, Undef)
(***************************************************************************)
(* resolveDiscountUrl (parking-api.ts lines 702-742): the session id of a   *)
(* discount url, from the redirect it answers with or from its body.       *)
(***************************************************************************)
\* [A-Z0-9] under the i flag
SessionIdChars == Range(UpperLetters) \cup Range(LowerLetters) \cup Range(Digits)

JsessionidEquals == <<"j","s","e","s","s","i","o","n","i","d","=">>

\* /jsessionid=([A-Z0-9]+)/i matches text at position i
sessionIdAt(text, i) ==
  /\ LitAt(toLowerCase(text), i, JsessionidEquals)
  /\ At(text, i + Len(JsessionidEquals)) \in SessionIdChars

\* group 1 of the match at position i: the longest run of [A-Z0-9]
sessionIdFrom(text, i) ==
  Slice(text, i + Len(JsessionidEquals),
        SpanEnd(text, i + Len(JsessionidEquals), SessionIdChars) - 1)

\* text.match(/jsessionid=([A-Z0-9]+)/i): group 1 of the leftmost match, null
\* when there is none
jsessionidMatch(text) ==
  IF \E i \in 1..Len(text) : sessionIdAt(text, i)
  THEN Str(sessionIdFrom(text, CHOOSE i \in 1..Len(text) :
                                 sessionIdAt(text, i) /\ \A k \in 1..(i - 1) : ~sessionIdAt(text, k)))
  ELSE Null

HttpScheme == <<"h","t","t","p",":","/","/">>

RECURSIVE IndexOfAny(_, _, _)
\* the first position >= i of s whose character is in cs, Len(s)+1 when none
IndexOfAny(s, i, cs) ==
  IF i > Len(s) \/ s[i] \in cs THEN i ELSE IndexOfAny(s, i + 1, cs)

\* where the host of an absolute url ends
hostEnd(url) == IndexOfAny(url, Len(HttpScheme) + 1, {"/", "?", "#"})

\* URL.toString() of an absolute url: an empty path is written "/"
serialised(url) ==
  IF At(url, hostEnd(url)) = "/" THEN url
  ELSE Slice(url, 1, hostEnd(url) - 1) \o <<"/">> \o Slice(url, hostEnd(url), Len(url))

\* the url up to its path, without query and fragment
uptoPath(url) == Slice(url, 1, IndexOfAny(url, 1, {"?", "#"}) - 1)

RECURSIVE lastSlash(_, _)
lastSlash(s, i) == IF i = 0 \/ s[i] = "/" THEN i ELSE lastSlash(s, i - 1)

\* the url up to the last "/" of its path
directoryOf(url) == Slice(uptoPath(url), 1, lastSlash(uptoPath(url), Len(uptoPath(url))))

\* new URL(location, url).toString() for a non-empty location and an absolute
\* http url: an absolute location stands by itself and throws when it has no
\* host, "//host.." takes the scheme, "/path" the origin, "?query" the path,
\* "#fragment" the path and the query, and a relative path the directory
absoluteLocationOf(location, url) ==
  CASE LitAt(location, 1, HttpScheme) ->
         IF hostEnd(location) = Len(HttpScheme) + 1 THEN Threw
         ELSE Returned(serialised(location))
    [] ~LitAt(location, 1, HttpScheme) /\ LitAt(location, 1, <<"/", "/">>) ->
         IF IndexOfAny(location, 3, {"/", "?", "#"}) = 3 THEN Threw
         ELSE Returned(serialised(<<"h","t","t","p",":">> \o location))
    [] ~LitAt(location, 1, <<"/", "/">>) /\ location[1] = "/" ->
         Returned(Slice(url, 1, hostEnd(url) - 1) \o location)
    [] location[1] = "?" -> Returned(uptoPath(serialised(url)) \o location)
    [] location[1] = "#" ->
         Returned(Slice(serialised(url), 1, IndexOfAny(serialised(url), 1, {"#"}) - 1) \o location)
    [] OTHER -> Returned(directoryOf(serialised(url)) \o location)

\* parsed.search without its "?": from the first "?" to the fragment
searchOf(url) ==
  Slice(url, IndexOfAny(url, 1, {"?", "#"}) + 1,
        IF At(url, IndexOfAny(url, 1, {"?", "#"})) = "?" THEN IndexOfAny(url, 1, {"#"}) - 1 ELSE 0)

RECURSIVE queryOf(_, _)
\* lines 717-718: query[key] = value over the entries, a later key overwriting
queryOf(entries, query) ==
  IF entries = <<>> THEN query
  ELSE queryOf(Tail(entries), Put(query, Head(entries).k, Str(Head(entries).v)))

redirectUrlKey == <<"r","e","d","i","r","e","c","t","U","r","l">>
queryKey == <<"q","u","e","r","y">>

\* lines 713-724: the result from the redirect url, null without a session id
resolvedFromRedirect(absoluteLocation, match) ==
  IF ~Truthy(match) THEN Null
  ELSE Obj(<< Prop(jsessionidKey, match),
              Prop(redirectUrlKey, Str(absoluteLocation)),
              Prop(queryKey, queryOf(URLSearchParams(searchOf(absoluteLocation)), Obj(<<>>))) >>)

\* lines 712-724, absoluteLocation the outcome of new URL(location, url)
resolvedFromLocation(absoluteLocation) ==
  IF absoluteLocation.threw THEN Null
  ELSE resolvedFromRedirect(absoluteLocation.v, jsessionidMatch(absoluteLocation.v))

\* lines 728-734: the result from the response body
resolvedFromBody(match) ==
  IF Truthy(match) THEN Obj(<<Prop(jsessionidKey, match)>>) ELSE Null

\* a slip: the body is scanned as well when the redirect url has no session id
resolveDiscountUrlFallingBack(url, answer) ==
  IF answer.threw THEN Null
  ELSE IF Truthy(answer.location)
            /\ resolvedFromLocation(absoluteLocationOf(answer.location.s, url)) # Null
       THEN resolvedFromLocation(absoluteLocationOf(answer.location.s, url))
  ELSE resolvedFromBody(jsessionidMatch(answer.body))

\* lines 702-742, answer the outcome of the fetch: it threw, or the Location
\* header (null when absent) and the body of the response
resolveDiscountUrl(url, answer) ==
  IF answer.threw THEN Null
  ELSE IF Truthy(answer.location) THEN resolvedFromLocation(absoluteLocationOf(answer.location.s, url))
  ELSE resolvedFromBody(jsessionidMatch(answer.body))

ScanUrls == { <<"h","t","t","p",":","/","/","x">>, <<"h","t","t","p",":","/","/","x","/","p","/","q",";","j","s","e","s","s","i","o","n","i","d","=","B","2","?","i","d","=","1","#","f">> }

RedirectLocations ==
  { Null, Str(<<>>),
    Str(<<"h","t","t","p",":","/","/","y","/","r",";","J","S","E","S","S","I","O","N","I","D","=","A","1","?","i","d","=","7","&","i","d","=","8","&","p","a","r","k","i","d","=","9">>),
    Str(<<"h","t","t","p",":","/","/","y","?","i","d","=","7">>),
    Str(<<"h","t","t","p",":","/","/">>),
    Str(<<"/","/","y","/","r","?","j","s","e","s","s","i","o","n","i","d","=","a","1","b","#","j","s","e","s","s","i","o","n","i","d","=","c">>),
    Str(<<"/","r","?","j","s","e","s","s","i","o","n","i","d","=","&","J","s","e","s","s","i","o","n","i","d","=","C","3",".","x">>),
    Str(<<"/","r","?","s","e","s","s","i","o","n","i","d","=","A","1">>),
    Str(<<"?","i","d","=","2">>),
    Str(<<"r">>) }

ResponseBodies ==
  { <<>>, <<"j","s","e","s","s","i","o","n","i","d","=">>, <<"a"," ","j","s","e","s","s","i","o","n","i","d","=","-","1"," ","j","S","e","s","s","i","o","n","I","d","=","D","4","e","5",";">>, <<"s","e","s","s","i","o","n","i","d","=","A","1">>,
    <<"<","a"," ","h","r","e","f","=","\"","p",";","j","s","e","s","s","i","o","n","i","d","=","E","6","\"",">">> }

FetchAnswers ==
  {[threw |-> TRUE, location |-> Null, body |-> <<>>]}
    \cup [threw : {FALSE}, location : RedirectLocations, body : ResponseBodies]

InitResolveDiscountUrl ==
  /\ fn = "resolveDiscountUrl"
  /\ args \in [url : ScanUrls, answer : FetchAnswers]
  /\ ret = <<>>
  /\ fnpc = "ready"
  /\ MainIdle

ResolveDiscountUrlCall ==
  /\ fn = "resolveDiscountUrl"
  /\ fnpc = "ready"
  /\ ret' = resolveDiscountUrl(args.url, args.answer)
  /\ fnpc' = "done"
  /\ UNCHANGED <<fn, args, mainVars>>

SpecResolveDiscountUrl == InitResolveDiscountUrl /\ [][ResolveDiscountUrlCall]_vars
\* id is what jsessionid=<id> first gives in text: "jsessionid=" in any letter
\* case at some position, id the longest run of letters and digits after it
\* and not empty, and no such place further left
FirstSessionId(text, id) ==
  \E i \in 1..Len(text) :
    /\ sessionIdAt(text, i)
    /\ \A k \in 1..(i - 1) : ~sessionIdAt(text, k)
    /\ id # <<>>
    /\ LitAt(text, i + Len(JsessionidEquals), id)
    /\ \A c \in Range(id) : c \in SessionIdChars
    /\ At(text, i + Len(JsessionidEquals) + Len(id)) \notin SessionIdChars

HasSessionId(text) == \E i \in 1..Len(text) : sessionIdAt(text, i)

\* the redirect url of a call has no jsessionid=<id>, or cannot be formed
RedirectWithoutSessionId ==
  \/ absoluteLocationOf(args.answer.location.s, args.url).threw
  \/ ~HasSessionId(absoluteLocationOf(args.answer.location.s, args.url).v)

PlainTemplate == Str(<<"{","\"","u","r","l","\"",":","\"","h",":","x","\"","}">>)
ScanUrl == Str(<<"h",":","s">>)

\* a discount type with a scan url
Scanned(d, scanUrl) == [d EXCEPT !.scanUrl = scanUrl]

SubmissionDiscountTypes ==
  { Scanned(DiscountType(FALSE, Null, Null, Str(<<"s","1">>), Null, Null), ScanUrl),
    Scanned(DiscountType(FALSE, Null, Null, Null, Null, Null), ScanUrl),
    DiscountType(FALSE, Null, Null, Null, Null, Null),
    DiscountType(TRUE, PlainTemplate, Null, Null, Null, Null) }

Guests ==
  [discountType : {TypeCode, OtherCode}, notes : {Null, Str(<<"n">>)},
   name : {Str(<<"L","i">>)}, phone : {Null}]

errorResponse(code, details) == [ok |-> FALSE, code |-> code, details |-> details]
okResponse(remoteResponse) == [ok |-> TRUE, code |-> "OK", details |-> remoteResponse]

InitSubmission ==
  /\ pc = "idle"
  /\ call = Null
  /\ discountTypes \in { {d} : d \in SubmissionDiscountTypes }
  /\ loadedType = Undef
  /\ requests = <<>>
  /\ response = Null
  /\ returnValue = Null
  /\ errorLog = <<>>
  /\ fn = "POST"
  /\ args \in [guest : Guests, record : {Undef}]
  /\ ret = <<>>
  /\ fnpc = "loading"

\* line 248
hasCustomRequest(record) ==
  Truthy(record.requestTemplate) /\ Trim(String(record.requestTemplate)) # <<>>

\* lines 245-251: the response of a failed pre-check, null when both pass
preCheck(record) ==
  IF record = Null THEN errorResponse("CONFIG_ERROR", "Discount type configuration missing.")
  ELSE IF ~hasCustomRequest(record) /\ ~Truthy(record.jsessionid) /\ ~Truthy(record.scanUrl)
  THEN errorResponse("CONFIG_ERROR",
                     "Discount type missing session, scan URL, or custom request template.")
  ELSE Null

\* lines 254-258: the context the handler passes on
submissionContext(guest) ==
  Obj(<< Prop(noteKey, OrElse(guest.notes, Null)), Prop(nameKey, guest.name),
         Prop(phoneKey, guest.phone) >>)

\* lines 244-258 and parking-api.ts 465-475: the handler's discount type
\* resolves, the pre-checks run and sendParkingDiscount is called, up to its
\* own await of the discount type
RecordLoaded ==
  /\ fn = "POST"
  /\ fnpc = "loading"
  /\ args' = [args EXCEPT !.record = getDiscountTypeByCode(args.guest.discountType)]
  /\ IF preCheck(getDiscountTypeByCode(args.guest.discountType)) # Null
     THEN /\ ret' = preCheck(getDiscountTypeByCode(args.guest.discountType))
          /\ fnpc' = "responded"
          /\ UNCHANGED <<pc, call>>
     ELSE /\ fnpc' = "sending"
          /\ pc' = "loading"
          /\ call' = [plateNumber |-> <<"A","1">>, discountTypeCode |-> args.guest.discountType,
                      contextOverrides |-> submissionContext(args.guest)]
          /\ UNCHANGED ret
  /\ UNCHANGED <<fn, discountTypes, loadedType, requests, response, returnValue, errorLog>>

\* lines 277-310: the response made from the result, fallbackUrl the setting
\* error_redirect_url
responseTo(result, record, fallbackUrl) ==
  IF result.success THEN okResponse(result.rawResponse)
  ELSE IF Truthy(OrElse(result.redirectUrl, record.scanUrl))
  THEN errorResponse("EXTERNAL_ERROR", OrElse(result.redirectUrl, record.scanUrl))
  ELSE IF Truthy(fallbackUrl) THEN errorResponse("EXTERNAL_ERROR", fallbackUrl)
  ELSE errorResponse("EXTERNAL_ERROR", Null)

\* lines 259-310: sendParkingDiscount has returned and the handler responds
Responds(fallbackUrl) ==
  /\ fn = "POST"
  /\ fnpc = "sending"
  /\ pc = "returned"
  /\ ret' = responseTo(returnValue, args.record, fallbackUrl)
  /\ fnpc' = "responded"
  /\ UNCHANGED <<fn, args, mainVars>>

\* lines 500-526: the admin's updateCustom writes the templates of the type
updateCustom(requestTemplate, responseTemplate) ==
  /\ \E d \in discountTypes : d.code = TypeCode
  /\ discountTypes' = { IF d.code = TypeCode
                        THEN [d EXCEPT !.requestTemplate = requestTemplate,
                                       !.responseTemplate = responseTemplate]
                        ELSE d : d \in discountTypes }
  /\ UNCHANGED <<pc, call, loadedType, requests, response, returnValue, errorLog, fnVars>>

NextSubmission ==
  \/ RecordLoaded
  \/ \E q \in {Null, PlainTemplate}, r \in {Null} : updateCustom(q, r)
  \/ ConfigLoaded
  \/ ConfigFails
  \/ \E ok \in BOOLEAN : FetchResolves(ok)
  \/ FetchRejects
  \/ \E t \in {<<>>, <<"x">>} : TextResolves(t)
  \/ TextRejects
  \/ \E u \in {Null, Str(<<"h",":","e">>)} : Responds(u)

SpecSubmission == InitSubmission /\ [][NextSubmission]_vars

\* C20: each submission reads the discount-type configuration once and every
\* later decision uses that snapshot: the configuration sendParkingDiscount
\* loads for its mode, template and session id is the one the handler made
\* its pre-checks on and takes its redirect fallback from, whatever the admin
\* edits in between.
C20_Original ==
  (fn = "POST" /\ fnpc \in {"sending", "responded"} /\ loadedType # Undef)
    => loadedType = args.record
(***************************************************************************)
(* evaluateCustomResponse applied to response texts and response rules     *)
(* (parking-api.ts lines 362-411).                                         *)
(***************************************************************************)
EvaluatedTexts ==
  { <<"x">>,
    <<"{","\"","i","n","f","o","\"",":","{","\"","e","r","r","m","s","g","\"",":","\"","o","k","\"",",","\"","n","\"",":","1","}","}">>,
    <<"{","\"","i","n","f","o","\"",":","{","\"","e","r","r","m","s","g","\"",":","\"","n","o","\"",",","\"","n","\"",":","0","}","}">>,
    <<"{","\"","i","n","f","o","\"",":","{","\"","d","i","s","c","o","u","n","t","c","h","a","r","g","e","\"",":","1",",","\"","e","r","r","m","s","g","\"",":","\"","o","k","\"","}","}">>,
    <<"c","b","(","{","\"","o","k","\"",":","\"","1","\"",",","\"","u","\"",":","\"","h",":","r","\"","}",")",";">> }

\* the mark of a property a rule does not have
Absent == [t |-> "absent"]

\* the object of the properties that are given
Given(props) == Obj(SelectSeq(props, LAMBDA p : p.v # Absent))

RulePaths == { Absent, Str(<<"i","n","f","o",".","e","r","r","m","s","g">>), Str(<<"i","n","f","o",".","n">>), Str(<<"i","n","f","o",".","x">>), Str(<<"o","k">>) }
RuleEquals == { Absent, Str(<<"o","k">>), Num(<<"1">>), Null }
RuleRegexes == { Absent, Str(<<"o","k">>), Str(<<"1">>), Str(<<"(">>) }

SuccessRules ==
  { Absent }
    \cup { Given(<<Prop(pathKey, p), Prop(equalsKey, e), Prop(regexKey, r)>>) :
             p \in RulePaths, e \in RuleEquals, r \in RuleRegexes }

RuleTypes == { Absent, Str(JsonType), Str(<<"t","e","x","t">>) }
RuleMessagePaths == { Absent, Str(<<"i","n","f","o",".","e","r","r","m","s","g">>) }
RuleRedirectPaths == { Absent, Str(<<"u">>) }

ResponseRules ==
  { Given(<<Prop(typeKey, t), Prop(successKey, s), Prop(messagePathKey, m),
            Prop(redirectPathKey, u)>>) :
      t \in RuleTypes, s \in SuccessRules, m \in RuleMessagePaths, u \in RuleRedirectPaths }

InitEvaluateCustomResponse ==
  /\ fn = "evaluateCustomResponse"
  /\ args \in [responseText : EvaluatedTexts, config : ResponseRules]
  /\ ret = <<>>
  /\ fnpc = "ready"
  /\ MainIdle

EvaluateCustomResponseCall ==
  /\ fn = "evaluateCustomResponse"
  /\ fnpc = "ready"
  /\ ret' = evaluateCustomResponse(args.responseText, args.config)
  /\ fnpc' = "done"
  /\ UNCHANGED <<fn, args, mainVars>>

SpecEvaluateCustomResponse == InitEvaluateCustomResponse /\ [][EvaluateCustomResponseCall]_vars

\* the fields of the success rule of a call
RulePath == PropOf(PropOf(args.config, successKey), pathKey)
RuleEqualsValue == PropOf(PropOf(args.config, successKey), equalsKey)
RuleRegex == PropOf(PropOf(args.config, successKey), regexKey)

\* the call ran the JSON branch on a response that parsed and did not throw
EvaluatedAsJson ==
  /\ fn = "evaluateCustomResponse"
  /\ fnpc = "done"
  /\ responseType(args.config) = Str(JsonType)
  /\ Truthy(tryParseJsonFromText(args.responseText))
  /\ ~ret.threw

\* C21: in JSON mode with success.regex set, success.equals not set and
\* success.path given, success is the regex tested against the string form of
\* the value at that path only; the full serialized JSON is tested only when
\* no path is configured.
C21_Original ==
  (EvaluatedAsJson /\ Truthy(RuleRegex) /\ RuleEqualsValue = Undef)
    => ret.v.success =
         regExpTest(String(RuleRegex),
                    IF Truthy(RulePath)
                    THEN String(getValueByPath(tryParseJsonFromText(args.responseText), RulePath))
                    ELSE JSONstringify(tryParseJsonFromText(args.responseText)))
\* the value at success.path in the response of a call, undefined without a path
RuleTarget ==
  IF Truthy(RulePath) THEN getValueByPath(tryParseJsonFromText(args.responseText), RulePath)
  ELSE Undef

\* identical, or equal as strings
SameOrSameText(a, b) == (a = b /\ ~IsObj(a)) \/ String(a) = String(b)

\* the text a regex is tested against
RegexTarget ==
  IF RuleTarget # Undef THEN String(RuleTarget)
  ELSE JSONstringify(tryParseJsonFromText(args.responseText))

\* C22: in JSON mode one criterion decides success, in the order equals, regex,
\* path truthiness: with equals set success holds iff the value at success.path
\* is identical to equals or equal to it as a string, and the regex is ignored;
\* with a regex and no equals the regex decides; with only a path success is
\* the truthiness of the value; with no success rule, or an empty one, success
\* is false.
C22_OneCriterion ==
  EvaluatedAsJson =>
    ret.v.success =
      (IF ~Truthy(PropOf(args.config, successKey)) THEN FALSE
       ELSE IF RuleEqualsValue # Undef THEN SameOrSameText(RuleTarget, RuleEqualsValue)
       ELSE IF Truthy(RuleRegex) THEN regExpTest(String(RuleRegex), RegexTarget)
       ELSE IF Truthy(RulePath) THEN Truthy(RuleTarget)
       ELSE FALSE)

\* equals holds of the value while the regex of the same rule could not even
\* be compiled: success, the regex ignored
C22_Witness ==
  /\ EvaluatedAsJson
  /\ args.responseText = <<"{","\"","i","n","f","o","\"",":","{","\"","e","r","r","m","s","g","\"",":","\"","o","k","\"",",","\"","n","\"",":","1","}","}">>
  /\ RulePath = Str(<<"i","n","f","o",".","e","r","r","m","s","g">>)
  /\ RuleEqualsValue = Str(<<"o","k">>)
  /\ RuleRegex = Str(<<"(">>)
  /\ ret.v.success
(***************************************************************************)
(* A #header directive whose content is an object literal: extractDirective *)
(* followed by parseHeaderDirective, as parseRequestTemplate (lines 295-299) *)
(* and sendParkingDiscount (lines 512 and 538-543) apply them.              *)
(***************************************************************************)
\* the header overrides of the #header directive of raw, null without one
directiveHeaders(raw, headerDirective) ==
  IF Truthy(headerDirective) THEN parseHeaderDirective(headerDirective.s) ELSE Null

\* object literals with the mapping each one denotes
HeaderLiterals ==
  { [text |-> <<"{","\"","X","-","A","\"",":","\"","1","\"","}">>, pairs |-> Obj(<<Prop(<<"X","-","A">>, Str(<<"1">>))>>)],
    [text |-> <<"{","\"","X","-","A","\"",":","\"","1","\"",",","\"","b","\"",":","\"","2","\"","}">>,
     pairs |-> Obj(<<Prop(<<"X","-","A">>, Str(<<"1">>)), Prop(<<"b">>, Str(<<"2">>))>>)],
    [text |-> <<"{"," ","\"","a","\""," ",":"," ","\"","x","=","y","\""," ","}">>, pairs |-> Obj(<<Prop(<<"a">>, Str(<<"x","=","y">>))>>)],
    [text |-> <<"{","'","a","'",":","'","1","'","}">>, pairs |-> Obj(<<Prop(<<"a">>, Str(<<"1">>))>>)],
    [text |-> <<"{","a",":","\"","1","\"",",","}">>, pairs |-> Obj(<<Prop(<<"a">>, Str(<<"1">>))>>)],
    [text |-> <<"{","\"","a","\"",":","\"","1",";","b","\"","}">>, pairs |-> Obj(<<Prop(<<"a">>, Str(<<"1",";","b">>))>>)],
    [text |-> <<"{","\"","a","\"",":","\"","\"","}">>, pairs |-> Obj(<<Prop(<<"a">>, Str(<<>>))>>)],
    [text |-> <<"{","}">>, pairs |-> Obj(<<>>)] }

TextsBefore == { <<>>, <<"{","\"","u","r","l","\"",":","\"","h",":","x","\"","}">>, <<"n"," ">> }
TextsAfter == { <<>>, <<" ">>, <<"#","b","o","d","y","{","a","=","1","}">> }
DirectiveOpenings == { <<"#","h","e","a","d","e","r","{">>, <<"#","H","E","A","D","E","R","{">> }

InitHeaderLiteral ==
  /\ fn = "headerDirective"
  /\ args \in [literal : HeaderLiterals, before : TextsBefore, after : TextsAfter,
               opening : DirectiveOpenings]
  /\ ret = <<>>
  /\ fnpc = "ready"
  /\ MainIdle

\* the text the directive stands in
RawOf(a) == a.before \o a.opening \o a.literal.text \o <<"}">> \o a.after

HeaderDirectiveCall ==
  /\ fn = "headerDirective"
  /\ fnpc = "ready"
  /\ ret' = directiveHeaders(RawOf(args), extractDirective(RawOf(args), HeaderName))
  /\ fnpc' = "done"
  /\ UNCHANGED <<fn, args, mainVars>>

SpecHeaderLiteral == InitHeaderLiteral /\ [][HeaderDirectiveCall]_vars

\* C23: a #header directive whose content is an object literal is parsed as a
\* mapping: the header overrides are exactly the key/value pairs of the
\* literal.
C23_Original ==
  (fn = "headerDirective" /\ fnpc = "done") => ret = args.literal.pairs
(***************************************************************************)
(* Concurrent submissions of one guest: POST (part_006 lines 135-313) and   *)
(* decrementGuestUseCount (schema.ts lines 452-470).  args is the guest's   *)
(* row in the database with the use count it started from, ret[p] is the    *)
(* submission p (its position, the guest it read, the result of             *)
(* sendParkingDiscount, its updatedGuest and its answer), and requests      *)
(* lists the submissions that sent the upstream request.                    *)
(***************************************************************************)
MaxSubmissions == 3
MaxUseCount == 2

Submissions == 1..MaxSubmissions

GuestRow(useCount, status) == [useCount |-> useCount, status |-> status]

Submission(at, guest, result, updatedGuest, answer) ==
  [at |-> at, guest |-> guest, result |-> result, updatedGuest |-> updatedGuest,
   answer |-> answer]

InitSubmissions ==
  /\ fn = "POST"
  /\ args \in { [guest |-> GuestRow(n, "active"), initial |-> n] : n \in 0..MaxUseCount }
  /\ ret = [p \in Submissions |-> Submission("start", Null, Null, Null, Null)]
  /\ fnpc = "concurrent"
  /\ pc = "none"
  /\ call = Null
  /\ discountTypes = {}
  /\ loadedType = Undef
  /\ requests = <<>>
  /\ response = Null
  /\ returnValue = Null
  /\ errorLog = <<>>

Concurrent == fn = "POST" /\ fnpc = "concurrent"

submissionVarsUnchanged ==
  UNCHANGED <<pc, call, discountTypes, loadedType, response, returnValue, errorLog, fn, fnpc>>

\* part_006 lines 161-194: the guest is read and its status and use count
\* are checked
GuestFound(p) ==
  /\ Concurrent
  /\ ret[p].at = "start"
  /\ ret' = [ret EXCEPT ![p] =
               IF args.guest.status = "disabled"
                  \/ args.guest.status = "exhausted" \/ args.guest.useCount <= 0
               THEN Submission("answered", args.guest, Null, Null,
                               errorResponse("FORBIDDEN", Null))
               ELSE Submission("checked", args.guest, Null, Null, Null)]
  /\ UNCHANGED <<args, requests>>
  /\ submissionVarsUnchanged

\* part_006 line 254 and parking-api.ts lines 581-585: the upstream request
\* is sent
UpstreamSent(p) ==
  /\ Concurrent
  /\ ret[p].at = "checked"
  /\ requests' = Append(requests, p)
  /\ ret' = [ret EXCEPT ![p].at = "sent"]
  /\ UNCHANGED args
  /\ submissionVarsUnchanged

\* part_006 lines 254-259: sendParkingDiscount returns; a failure needs no
\* decrement
ResultReturned(p, success) ==
  /\ Concurrent
  /\ ret[p].at = "sent"
  /\ ret' = [ret EXCEPT ![p].result = [success |-> success],
                        ![p].at = IF success THEN "decrementing" ELSE "logging"]
  /\ UNCHANGED <<args, requests>>
  /\ submissionVarsUnchanged

\* schema.ts lines 454-467: UPDATE guests SET use_count = use_count - 1,
\* status = exhausted at zero, WHERE use_count > 0; no row changed gives null
UseCountDecremented(p) ==
  /\ Concurrent
  /\ ret[p].at = "decrementing"
  /\ IF args.guest.useCount > 0
     THEN /\ args' = [args EXCEPT !.guest =
                        GuestRow(args.guest.useCount - 1,
                                 IF args.guest.useCount - 1 <= 0 THEN "exhausted"
                                 ELSE args.guest.status)]
          /\ ret' = [ret EXCEPT ![p].at = "rereading"]
     ELSE /\ UNCHANGED args
          /\ ret' = [ret EXCEPT ![p].at = "logging"]
  /\ UNCHANGED requests
  /\ submissionVarsUnchanged

\* schema.ts line 469: the guest is read again
GuestReread(p) ==
  /\ Concurrent
  /\ ret[p].at = "rereading"
  /\ ret' = [ret EXCEPT ![p].updatedGuest = args.guest, ![p].at = "logging"]
  /\ UNCHANGED <<args, requests>>
  /\ submissionVarsUnchanged

Max0(n) == IF n < 0 THEN 0 ELSE n

\* part_006 lines 278-279: the use count and the status of the answer
answeredGuest(guest, updatedGuest) ==
  IF updatedGuest # Null THEN updatedGuest
  ELSE GuestRow(Max0(guest.useCount - 1),
                IF Max0(guest.useCount - 1) <= 0 THEN "exhausted" ELSE guest.status)

\* part_006 lines 261-310: the logs are written and the submission is answered
SubmissionAnswered(p) ==
  /\ Concurrent
  /\ ret[p].at = "logging"
  /\ ret' = [ret EXCEPT ![p].at = "answered",
                        ![p].answer =
                          IF ret[p].result.success
                          THEN okResponse(answeredGuest(ret[p].guest, ret[p].updatedGuest))
                          ELSE errorResponse("EXTERNAL_ERROR", Null)]
  /\ UNCHANGED <<args, requests>>
  /\ submissionVarsUnchanged

NextSubmissions ==
  \E p \in Submissions :
    \/ GuestFound(p)
    \/ UpstreamSent(p)
    \/ \E success \in BOOLEAN : ResultReturned(p, success)
    \/ UseCountDecremented(p)
    \/ GuestReread(p)
    \/ SubmissionAnswered(p)

SpecSubmissions == InitSubmissions /\ [][NextSubmissions]_vars

\* the submissions that sent the upstream request and were answered as
\* successful
SentAndSuccessful ==
  { p \in Submissions :
      /\ \E i \in DOMAIN requests : requests[i] = p
      /\ ret[p].at = "answered"
      /\ ret[p].answer.ok }

\* C24: for a guest whose use count is N and is not refilled, across any
\* interleaving of concurrent submissions, at most N submissions send an
\* upstream discount request and are answered as successful.
C24_Original ==
  Concurrent => Cardinality(SentAndSuccessful) <= args.initial
(***************************************************************************)
(* Further properties of the result made from the response (specification  *)
(* Spec).                                                                  *)
(***************************************************************************)
\* C25: in every sendParkingDiscount call whose outbound request completed and
\* whose response text was read, the returned result carries rawResponse equal
\* to that text, whatever the response rule contains and however its
\* evaluation ends.
C25_Original ==
  [][\A t \in ResponseTexts :
       TextResolves(t) => (pc' = "returned" /\ returnValue'.rawResponse = Str(t))]_vars
\* the verdict of the response rule of the discount type on a text
Verdict(d, responseText) == evaluateCustomResponse(responseText, ResponseRule(d))

\* the parsed response has info.discountcharge
HasDiscountCharge(json) ==
  /\ IsObj(json)
  /\ IsObj(PropOf(json, infoKey))
  /\ HasKey(PropOf(json, infoKey), discountchargeKey)

\* the discount fields a result of the rule carries: those of the parsed
\* response when the rule ran in JSON mode and the response has
\* info.discountcharge
RuledDiscountInfo(d, responseText) ==
  IF JsonRule(d) /\ HasDiscountCharge(tryParseJsonFromText(responseText))
  THEN extractDiscountInfo(tryParseJsonFromText(responseText))
  ELSE Undef

\* C26: in Custom mode with a parsed response rule whose evaluation returns,
\* the success of the result is exactly the rule's verdict, whatever the HTTP
\* status is and whether or not the response has info.discountcharge, and
\* discountInfo is attached only when the rule ran in JSON mode and the parsed
\* JSON has info.discountcharge.
C26_RuleDecides ==
  [][\A t \in ResponseTexts :
       (/\ ReadingCustom
        /\ Truthy(ResponseRule(loadedType))
        /\ ~Verdict(loadedType, t).threw
        /\ TextResolves(t))
         => /\ pc' = "returned"
            /\ returnValue'.success = Verdict(loadedType, t).v.success
            /\ returnValue'.discountInfo = RuledDiscountInfo(loadedType, t)]_vars

\* a 2xx response with info.discountcharge that the JSON rule does not accept:
\* a failure that carries the discount fields
C26_Witness ==
  /\ pc = "returned"
  /\ Len(requests) = 1
  /\ requests[1].site = "custom"
  /\ JsonRule(loadedType)
  /\ response = [ok |-> TRUE]
  /\ returnValue.rawResponse = Str(<<"{","\"","i","n","f","o","\"",":","{","\"","d","i","s","c","o","u","n","t","c","h","a","r","g","e","\"",":","1","}","}">>)
  /\ ~returnValue.success
  /\ returnValue.discountInfo # Undef
\* a non-empty response template that JSON.parse rejects or reads as a falsy
\* value
UnusableTemplate(raw) ==
  /\ Truthy(raw)
  /\ \/ ~JSONparse(raw.s).ok
     \/ ~Truthy(JSONparse(raw.s).v)

\* C27: a non-empty responseTemplate that does not parse to a usable JSON value
\* makes sendParkingDiscount fail with 'Custom response template parse failed'
\* before any outbound request, in Legacy mode as well as in Custom mode, and
\* whatever the request template is.
C27_ResponseTemplateFirst ==
  (loadedType \notin {Undef, Null} /\ UnusableTemplate(loadedType.responseTemplate))
    => /\ pc = "returned"
       /\ requests = <<>>
       /\ returnValue = Failure(ResponseTemplateParseFailed(loadedType.name))

\* a custom discount type without a request template and with a response
\* template that parses to 0 fails on the response template
C27_Witness ==
  /\ pc = "returned"
  /\ loadedType \notin {Undef, Null}
  /\ loadedType.useCustomRequest
  /\ loadedType.requestTemplate = Null
  /\ loadedType.responseTemplate = Str(<<"0">>)
  /\ requests = <<>>
  /\ returnValue = Failure(ResponseTemplateParseFailed(loadedType.name))

\* the same in Legacy mode with a session id
C27_LegacyFails ==
  /\ pc = "returned"
  /\ loadedType \notin {Undef, Null}
  /\ ~loadedType.useCustomRequest
  /\ Truthy(loadedType.jsessionid)
  /\ loadedType.responseTemplate = Str(<<"x">>)
  /\ requests = <<>>
(***************************************************************************)
(* Several directives of one kind in a template (parseRequestTemplate,     *)
(* lines 243-306) and in a note (sendParkingDiscount, lines 511-547).       *)
(* args.single is the text with the first directive of the kind only.      *)
(***************************************************************************)
RepeatedKinds ==
  { [opening |-> <<"#","h","e","a","d","e","r","{">>, again |-> <<"#","H","E","A","D","E","R","{">>,
     contents |-> { <<"A","=","1">>, <<"A","=","2",";","B","=","3">>, <<>> }],
    [opening |-> <<"#","b","o","d","y","{">>, again |-> <<"#","B","o","d","y","{">>,
     contents |-> { <<"a","=","1">>, <<"a","=","2","&","b","=","3">>, <<>> }] }

\* first and later are contents of one kind; the later directive stands after
\* the text between, in either letter case
RepeatedTexts(lead, betweens, tails) ==
  UNION { { [raw |-> lead \o k.opening \o first \o <<"}">> \o between
                      \o opening \o later \o <<"}">> \o tail,
             single |-> lead \o k.opening \o first \o <<"}">> \o between \o tail] :
              first \in k.contents, later \in k.contents, between \in betweens,
              tail \in tails, opening \in {k.opening, k.again} } :
          k \in RepeatedKinds }

RepeatedTemplates ==
  RepeatedTexts(<<"{","\"","u","r","l","\"",":","\"","h",":","x","\"",",","\"","h","e","a","d","e","r","s","\"",":","{","\"","A","\"",":","\"","0","\"","}",",","\"","b","o","d","y","\"",":","{","\"","a","\"",":","\"","0","\"","}","}">>, { <<>>, <<" ">> },
                { <<>>, <<" ","#","h","e","a","d","e","r","{","C","=","4","}","#","b","o","d","y","{","c","=","4","}">> })

RepeatedNotes ==
  RepeatedTexts(<<"k","=","v"," ">>, { <<>>, <<" ","m"," ">> }, { <<>>, <<" ","#","h","e","a","d","e","r","{","C","=","4","}","#","b","o","d","y","{","c","=","4","}">> })

NotedTemplate == Str(<<"{","\"","u","r","l","\"",":","\"","h",":","x","\"",",","\"","b","o","d","y","\"",":","{","\"","a","\"",":","\"","0","\"",",","\"","n","\"",":","\"","{","{","n","o","t","e","}","}","\"",",","\"","k","\"",":","\"","{","{","k","}","}","\"","}","}">>)

InitRepeatedDirectives ==
  /\ \/ /\ fn = "parseRequestTemplate"
        /\ args \in RepeatedTemplates
     \/ /\ fn = "customBranch"
        /\ args \in { [discountType |-> DiscountType(TRUE, NotedTemplate, Null, Null, Null, Null),
                       contextOverrides |-> Obj(<<Prop(noteKey, Str(n.raw))>>),
                       single |-> Obj(<<Prop(noteKey, Str(n.single))>>)] :
                      n \in RepeatedNotes }
  /\ ret = <<>>
  /\ fnpc = "ready"
  /\ MainIdle

SpecRepeatedDirectives ==
  InitRepeatedDirectives /\ [][ParseRequestTemplateCall \/ CustomBranchCall]_vars

\* C28: when a template or a note has several directives of one kind, only the
\* first one is applied and every one is removed from the remaining text:
\* the parsed template, and the request made with the note, are those of the
\* text without the later occurrences.
C28_FirstDirectiveOnly ==
  /\ (fn = "parseRequestTemplate" /\ fnpc = "done")
       => ret = parseRequestTemplate(args.single)
  /\ (fn = "customBranch" /\ fnpc = "done")
       => ret = customBranch(args.discountType, <<"A","1">>, TypeCode, args.single)

\* two #header directives after a template: the value of the first is the one
\* in the headers
C28_Witness ==
  /\ fn = "parseRequestTemplate"
  /\ fnpc = "done"
  /\ args.raw = <<"{","\"","u","r","l","\"",":","\"","h",":","x","\"",",","\"","h","e","a","d","e","r","s","\"",":","{","\"","A","\"",":","\"","0","\"","}",",","\"","b","o","d","y","\"",":","{","\"","a","\"",":","\"","0","\"","}","}","#","h","e","a","d","e","r","{","A","=","1","}","#","h","e","a","d","e","r","{","A","=","2",";","B","=","3","}">>
  /\ ret # Null
  /\ Get(ret, headersKey) = Obj(<<Prop(<<"A">>, Str(<<"1">>))>>)

\* two #body directives in a note: the request carries the first one's value
\* and the note without either
C28_NoteFirstOnly ==
  /\ fn = "customBranch"
  /\ fnpc = "done"
  /\ args.contextOverrides = Obj(<<Prop(noteKey, Str(<<"k","=","v"," ","#","b","o","d","y","{","a","=","1","}"," ","m"," ","#","b","o","d","y","{","a","=","2","&","b","=","3","}">>))>>)
  /\ ret.kind = "fetch"
(***************************************************************************)
(* ensureSettingsInitialized (schema.ts lines 480-552) under concurrent     *)
(* callers.  args holds the module's settingsInitDone and                   *)
(* settingsInitPromise and the executions of the initialization body (one   *)
(* promise each, in the order they were started); ret[c] is the caller c:   *)
(* where it is and the execution it waits for.                              *)
(***************************************************************************)
MaxCallers == 4

Callers == 1..MaxCallers

Caller(at, on) == [at |-> at, on |-> on]

InitSettings ==
  /\ fn = "ensureSettingsInitialized"
  /\ args = [settingsInitDone |-> FALSE, settingsInitPromise |-> 0, executions |-> <<>>]
  /\ ret = [c \in Callers |-> Caller("idle", 0)]
  /\ fnpc = "concurrent"
  /\ MainIdle

Initializing == fn = "ensureSettingsInitialized" /\ fnpc = "concurrent"

\* a slip: a bare flag, the promise of the execution in progress is not looked at
ensureStartBareFlag(settingsInitDone, settingsInitPromise) ==
  IF settingsInitDone THEN "return" ELSE "start"

\* lines 484-487: what a call does first; 0 stands for the null promise
ensureStart(settingsInitDone, settingsInitPromise) ==
  IF settingsInitDone THEN "return"
  ELSE IF settingsInitPromise # 0 THEN "join"
  ELSE "start"

\* lines 483-487 and 546-547: a call returns at once, returns the promise of
\* the execution in progress, or starts the body and awaits its promise
Enters(c) ==
  /\ Initializing
  /\ ret[c].at = "idle"
  /\ CASE ensureStart(args.settingsInitDone, args.settingsInitPromise) = "return" ->
            /\ ret' = [ret EXCEPT ![c] = Caller("returned", 0)]
            /\ UNCHANGED args
       [] ensureStart(args.settingsInitDone, args.settingsInitPromise) = "join" ->
            /\ ret' = [ret EXCEPT ![c] = Caller("joined", args.settingsInitPromise)]
            /\ UNCHANGED args
       [] ensureStart(args.settingsInitDone, args.settingsInitPromise) = "start" ->
            /\ args' = [args EXCEPT !.executions = Append(args.executions, "pending"),
                                    !.settingsInitPromise = Len(args.executions) + 1]
            /\ ret' = [ret EXCEPT ![c] = Caller("awaiting", Len(args.executions) + 1)]
  /\ UNCHANGED <<fn, fnpc, mainVars>>

\* lines 487-543: the body of an execution ends, with or without an exception
BodyEnds(e, outcome) ==
  /\ Initializing
  /\ e \in DOMAIN args.executions
  /\ args.executions[e] = "pending"
  /\ args' = [args EXCEPT !.executions[e] = outcome]
  /\ UNCHANGED <<fn, ret, fnpc, mainVars>>

\* lines 545-550: the caller that started the execution goes on after its
\* await: the flag is set after a success, the promise is cleared either way
StarterResumes(c) ==
  /\ Initializing
  /\ ret[c].at = "awaiting"
  /\ args.executions[ret[c].on] # "pending"
  /\ args' = [args EXCEPT !.settingsInitDone =
                            IF args.executions[ret[c].on] = "fulfilled" THEN TRUE ELSE @,
                          !.settingsInitPromise = 0]
  /\ ret' = [ret EXCEPT ![c].at =
                          IF args.executions[ret[c].on] = "fulfilled" THEN "returned" ELSE "threw"]
  /\ UNCHANGED <<fn, fnpc, mainVars>>

\* line 485: a caller that was handed the promise is answered by it
JoinerResumes(c) ==
  /\ Initializing
  /\ ret[c].at = "joined"
  /\ args.executions[ret[c].on] # "pending"
  /\ ret' = [ret EXCEPT ![c].at =
                          IF args.executions[ret[c].on] = "fulfilled" THEN "returned" ELSE "threw"]
  /\ UNCHANGED <<fn, args, fnpc, mainVars>>

NextSettings ==
  \/ \E c \in Callers : Enters(c)
  \/ \E e \in 1..MaxCallers, outcome \in {"fulfilled", "rejected"} : BodyEnds(e, outcome)
  \/ \E c \in Callers : StarterResumes(c)
  \/ \E c \in Callers : JoinerResumes(c)

SpecSettings == InitSettings /\ [][NextSettings]_vars

\* the executions of the body in progress
InProgress == { e \in DOMAIN args.executions : args.executions[e] = "pending" }

\* at most one execution is in progress, and none was started after one that
\* succeeded
OneExecution ==
  Initializing =>
    /\ Cardinality(InProgress) <= 1
    /\ \A e \in DOMAIN args.executions :
         args.executions[e] = "fulfilled" => e = Len(args.executions)

\* a caller that arrives while an execution is in progress waits for that
\* execution and starts none
ArrivalsJoin ==
  \A c \in Callers :
    (Enters(c) /\ InProgress # {})
      => /\ args'.executions = args.executions
         /\ ret'[c].at = "joined"
         /\ ret'[c].on \in InProgress

\* a caller that arrives after a failed execution was cleared starts a new one
FailureRetried ==
  \A c \in Callers :
    (/\ Enters(c)
     /\ args.executions # <<>>
     /\ args.executions[Len(args.executions)] = "rejected"
     /\ args.settingsInitPromise = 0)
      => /\ Len(args'.executions) = Len(args.executions) + 1
         /\ ret'[c] = Caller("awaiting", Len(args.executions) + 1)

\* C29: the lazy settings bootstrap is single-flight: at most one execution of
\* the initialization body is in progress at a time, every caller that arrives
\* while one is in progress waits for that same execution, the body never runs
\* again after one execution has succeeded, and after a failed execution a
\* later caller starts a new one.
C29_SingleFlight ==
  /\ []OneExecution
  /\ [][ArrivalsJoin /\ FailureRetried]_vars

\* a first execution failed, a second one was started by a later caller,
\* joined by another and succeeded
C29_Witness ==
  /\ Initializing
  /\ args.executions = <<"rejected", "fulfilled">>
  /\ args.settingsInitDone
  /\ \E c \in Callers : ret[c] = Caller("returned", 2)
  /\ \E c \in Callers : ret[c] = Caller("threw", 1)
  /\ Cardinality({ c \in Callers : ret[c].on = 2 }) >= 2
(***************************************************************************)
(* updateDiscountUrl (parking-api.ts lines 758-809).  discountTypes is the  *)
(* stored configuration; args holds the arguments, the table as it was      *)
(* stored at the call, the discount type read, the outcome of the fetch and *)
(* the data to write; ret is the result.                                    *)
(***************************************************************************)
TypeNotFoundForUrl == [t |-> "fixed", m |-> "discount type not found"]
SessionNotResolved == [t |-> "fixed", m |-> "no session id from the url"]
UpdateFailed == [t |-> "fixed", m |-> "update failed"]

UrlResult(success, jsessionid, message) ==
  [success |-> success, jsessionid |-> jsessionid, message |-> message]

\* lines 783-788: resolved.query?.key || DEFAULT_BODY_PARAMS.key
queryOrDefault(resolved, key) ==
  OrElse(PropOf(PropOf(resolved, queryKey), key), Get(DEFAULT_BODY_PARAMS, key))

\* lines 783-788
nextPostParams(resolved) ==
  Obj(<< Prop(<<"i","d">>, queryOrDefault(resolved, <<"i","d">>)),
         Prop(<<"b","u","s","i","n","e","s","s","i","d">>, queryOrDefault(resolved, <<"b","u","s","i","n","e","s","s","i","d">>)),
         Prop(<<"p","a","r","k","i","d">>, queryOrDefault(resolved, <<"p","a","r","k","i","d">>)),
         Prop(<<"t","o","t","a","l","c","o","u","n","t">>, queryOrDefault(resolved, <<"t","o","t","a","l","c","o","u","n","t">>)) >>)

\* a slip: the data is made without looking for a session id
urlUpdateUnchecked(url, resolved) ==
  [scanUrl |-> Str(url), jsessionid |-> PropOf(resolved, jsessionidKey),
   refererUrl |-> PropOf(resolved, redirectUrlKey),
   postParams |-> Str(JSONstringify(nextPostParams(resolved)))]

\* lines 775-796: the data to write, null when no session id was resolved
urlUpdate(url, resolved) ==
  IF ~Truthy(PropOf(resolved, jsessionidKey)) THEN Null
  ELSE [scanUrl |-> Str(url), jsessionid |-> PropOf(resolved, jsessionidKey),
        refererUrl |-> PropOf(resolved, redirectUrlKey),
        postParams |-> Str(JSONstringify(nextPostParams(resolved)))]

\* schema.ts lines 1234-1244: the row with the data set; a value that is
\* undefined is not part of the SET clause
updatedRow(row, data) ==
  [row EXCEPT !.scanUrl = data.scanUrl, !.jsessionid = data.jsessionid,
              !.refererUrl = IF data.refererUrl = Undef THEN @ ELSE data.refererUrl,
              !.postParams = data.postParams]

UrlDiscountTypes ==
  { DiscountType(FALSE, Null, Null, Str(<<"s","1">>), Null, Null),
    Scanned(DiscountType(FALSE, Null, Null, Null, Str(<<"h",":","r">>), Null), ScanUrl),
    Scanned(DiscountType(FALSE, Null, Null, Str(<<"s","1">>), Null, Null), ScanUrl) }

InitUpdateDiscountUrl ==
  /\ pc = "none"
  /\ call = Null
  /\ discountTypes \in { {d} : d \in UrlDiscountTypes }
  /\ loadedType = Undef
  /\ requests = <<>>
  /\ response = Null
  /\ returnValue = Null
  /\ errorLog = <<>>
  /\ fn = "updateDiscountUrl"
  /\ args \in { [discountTypeCode |-> c, url |-> u, stored |-> discountTypes,
                 discountType |-> Undef, answer |-> Undef, data |-> Undef] :
                c \in {TypeCode, OtherCode}, u \in ScanUrls }
  /\ ret = <<>>
  /\ fnpc = "loading"

urlVarsUnchanged ==
  UNCHANGED <<pc, call, loadedType, requests, response, returnValue, errorLog, fn>>

\* lines 764-773: the discount type resolves; unknown, the call returns
UrlTypeLoaded ==
  /\ fn = "updateDiscountUrl"
  /\ fnpc = "loading"
  /\ IF getDiscountTypeByCode(args.discountTypeCode) = Null
     THEN /\ ret' = UrlResult(FALSE, Undef, TypeNotFoundForUrl)
          /\ fnpc' = "done"
          /\ UNCHANGED args
     ELSE /\ args' = [args EXCEPT !.discountType = getDiscountTypeByCode(args.discountTypeCode)]
          /\ fnpc' = "resolving"
          /\ UNCHANGED ret
  /\ UNCHANGED discountTypes
  /\ urlVarsUnchanged

\* lines 773-796: resolveDiscountUrl returns; without a session id the call
\* returns, with one the write is started
UrlResolved(answer) ==
  /\ fn = "updateDiscountUrl"
  /\ fnpc = "resolving"
  /\ IF urlUpdate(args.url, resolveDiscountUrl(args.url, answer)) = Null
     THEN /\ ret' = UrlResult(FALSE, Undef, SessionNotResolved)
          /\ fnpc' = "done"
          /\ args' = [args EXCEPT !.answer = answer]
     ELSE /\ args' = [args EXCEPT !.answer = answer,
                                  !.data = urlUpdate(args.url, resolveDiscountUrl(args.url, answer))]
          /\ fnpc' = "writing"
          /\ UNCHANGED ret
  /\ UNCHANGED discountTypes
  /\ urlVarsUnchanged

\* lines 791-801: the row is written and the call returns the session id
UrlWritten ==
  /\ fn = "updateDiscountUrl"
  /\ fnpc = "writing"
  /\ discountTypes' = { IF d.code = args.discountType.code THEN updatedRow(d, args.data) ELSE d :
                        d \in discountTypes }
  /\ ret' = UrlResult(TRUE, args.data.jsessionid, Undef)
  /\ fnpc' = "done"
  /\ UNCHANGED args
  /\ urlVarsUnchanged

\* lines 802-808: the lookup or the write rejects and the catch clause returns
UrlUpdateFails ==
  /\ fn = "updateDiscountUrl"
  /\ fnpc \in {"loading", "writing"}
  /\ ret' = UrlResult(FALSE, Undef, UpdateFailed)
  /\ fnpc' = "done"
  /\ UNCHANGED <<args, discountTypes>>
  /\ urlVarsUnchanged

NextUpdateDiscountUrl ==
  \/ UrlTypeLoaded
  \/ \E answer \in FetchAnswers : UrlResolved(answer)
  \/ UrlWritten
  \/ UrlUpdateFails

SpecUpdateDiscountUrl == InitUpdateDiscountUrl /\ [][NextUpdateDiscountUrl]_vars

UpdatingUrl == fn = "updateDiscountUrl"

\* the stored configuration as the claim has it after a write: the url, the
\* session id and the post parameters of the call in the row of the type
WrittenConfiguration ==
  \A d \in discountTypes :
    d.code = args.discountTypeCode
      => /\ d.scanUrl = Str(args.url)
         /\ d.jsessionid = ret.jsessionid
         /\ Truthy(d.postParams)

\* C30: updateDiscountUrl writes the stored configuration (scanUrl, jsessionid,
\* refererUrl, postParams) only after a session id was resolved from the url;
\* when the discount type is unknown, the resolution returns null or the
\* network fails, the stored configuration is left unchanged and success=false
\* is returned.
C30_WriteAfterSession ==
  UpdatingUrl =>
    /\ fnpc # "done" => discountTypes = args.stored
    /\ (fnpc = "done" /\ ~ret.success) => discountTypes = args.stored
    /\ (fnpc = "done" /\ ret.success)
         => /\ args.discountType # Undef
            /\ args.data # Undef
            /\ Truthy(ret.jsessionid)
            /\ WrittenConfiguration
    /\ (fnpc = "done" /\ (args.discountType = Undef \/ args.data = Undef)) => ~ret.success
    /\ (fnpc = "done" /\ args.answer # Undef
           /\ (args.answer.threw \/ resolveDiscountUrl(args.url, args.answer) = Null))
         => (~ret.success /\ discountTypes = args.stored)

\* the fetch threw: nothing written
C30_NetworkFails ==
  /\ UpdatingUrl
  /\ fnpc = "done"
  /\ args.answer # Undef
  /\ args.answer.threw
  /\ ret = UrlResult(FALSE, Undef, SessionNotResolved)
  /\ discountTypes = args.stored

\* the session id of a redirect was written over a stored one
C30_Witness ==
  /\ UpdatingUrl
  /\ fnpc = "done"
  /\ ret = UrlResult(TRUE, Str(<<"A","1">>), Undef)
  /\ args.stored = {DiscountType(FALSE, Null, Null, Str(<<"s","1">>), Null, Null)}
  /\ discountTypes # args.stored

\* an unknown discount type: nothing written
C30_UnknownType ==
  /\ UpdatingUrl
  /\ fnpc = "done"
  /\ args.discountTypeCode = OtherCode
  /\ ret = UrlResult(FALSE, Undef, TypeNotFoundForUrl)

====
